---- MODULE Spec2Model ----
(***************************************************************************)
(* Model of the waste-disposal resolution engine of WasteWise              *)
(* (src/location_api.py).                                                  *)
(*                                                                         *)
(* Representation of Python values:                                        *)
(*  - a str is a sequence of one-character strings, so that lower(),       *)
(*    strip(), split(), the "in" substring test and the regular            *)
(*    expressions are computed character by character;                     *)
(*  - a JSON value is a tagged record: Null, Num(n), StrV(s), ListV(l),    *)
(*    Dict(d); a JSON object is a TLA+ function from key names to JSON     *)
(*    values, an absent key is a key outside its DOMAIN;                   *)
(*  - a float coordinate is fixed-point, in hundredths of a degree;        *)
(*  - a call that raises returns [exc |-> <exception class>], a call that  *)
(*    returns normally has exc = "".                                       *)
(***************************************************************************)
EXTENDS Integers, Sequences, FiniteSets, TLC

VARIABLES
    op,        \* the function of the public boundary that was called last
    args,      \* its arguments and what the environment answered
    result,    \* what the call returned or raised
    requests,  \* the HTTP requests issued during the call, in order
    frame,     \* the local variables of a function that is still running
    session_state  \* st.session_state, which lasts over the runs of the pages

vars == <<op, args, result, requests, frame, session_state>>

----------------------------------------------------------------------------
(* str primitives                                                          *)

UpperChars == <<"A", "B", "C", "D", "E", "F", "G", "H", "I", "J", "K", "L", "M",
                "N", "O", "P", "Q", "R", "S", "T", "U", "V", "W", "X", "Y", "Z",
                "Ä", "Ö", "Ü">>

LowerChars == <<"a", "b", "c", "d", "e", "f", "g", "h", "i", "j", "k", "l", "m",
                "n", "o", "p", "q", "r", "s", "t", "u", "v", "w", "x", "y", "z",
                "ä", "ö", "ü">>

LowerChar(c) ==
    IF \E i \in 1..Len(UpperChars) : UpperChars[i] = c
    THEN LowerChars[CHOOSE i \in 1..Len(UpperChars) : UpperChars[i] = c]
    ELSE c

\* str.lower()
str_lower(s) == [i \in 1..Len(s) |-> LowerChar(s[i])]

IsSpace(c) == c \in {" ", "\t"}

IsDigit(c) == c \in {"0", "1", "2", "3", "4", "5", "6", "7", "8", "9"}

DigitValue(c) ==
    CASE c = "0" -> 0 [] c = "1" -> 1 [] c = "2" -> 2 [] c = "3" -> 3
      [] c = "4" -> 4 [] c = "5" -> 5 [] c = "6" -> 6 [] c = "7" -> 7
      [] c = "8" -> 8 [] c = "9" -> 9

\* str.strip(): leading and trailing whitespace removed
str_strip(s) ==
    LET idx == {i \in 1..Len(s) : ~IsSpace(s[i])}
    IN  IF idx = {} THEN <<>>
        ELSE LET lo == CHOOSE i \in idx : \A j \in idx : i <= j
                 hi == CHOOSE i \in idx : \A j \in idx : j <= i
             IN  SubSeq(s, lo, hi)

\* a in b, for two str: a occurs in b as a contiguous substring
str_in(a, b) ==
    \E i \in 0..(Len(b) - Len(a)) : SubSeq(b, i + 1, i + Len(a)) = a

\* str.split(): the maximal runs of non-whitespace characters, in order
RECURSIVE str_split(_)
str_split(s) ==
    LET t == str_strip(s)
    IN  IF t = <<>> THEN <<>>
        ELSE LET sp  == {i \in 1..Len(t) : IsSpace(t[i])}
                 cut == IF sp = {} THEN Len(t) + 1
                        ELSE CHOOSE i \in sp : \A j \in sp : i <= j
             IN  <<SubSeq(t, 1, cut - 1)>> \o str_split(SubSeq(t, cut, Len(t)))

\* ' '.join(parts)
RECURSIVE str_join(_)
str_join(parts) ==
    IF parts = <<>> THEN <<>>
    ELSE IF Len(parts) = 1 THEN parts[1]
    ELSE parts[1] \o <<" ">> \o str_join(Tail(parts))

\* int(s) for a str of decimal digits
RECURSIVE int_of(_)
int_of(s) ==
    IF s = <<>> THEN 0
    ELSE 10 * int_of(SubSeq(s, 1, Len(s) - 1)) + DigitValue(s[Len(s)])

AllDigits(s) == s # <<>> /\ \A i \in 1..Len(s) : IsDigit(s[i])

----------------------------------------------------------------------------
(* JSON values                                                             *)

Null == [t |-> "null"]
Num(n) == [t |-> "num", n |-> n]
StrV(s) == [t |-> "str", s |-> s]
ListV(l) == [t |-> "list", l |-> l]
Dict(d) == [t |-> "dict", d |-> d]

\* the value used where a key is absent and the code gives no default
NoValue == [t |-> "absent"]

\* dict.get(key, default)
dict_get(d, key, default) == IF key \in DOMAIN d THEN d[key] ELSE default

\* Python truth value of a JSON value
Truthy(v) ==
    CASE v.t = "null" -> FALSE
      [] v.t = "num"  -> v.n # 0
      [] v.t = "str"  -> v.s # <<>>
      [] v.t = "list" -> v.l # <<>>
      [] v.t = "dict" -> DOMAIN v.d # {}
      [] OTHER        -> FALSE

Ok(v) == [exc |-> "", val |-> v]
Raise(e) == [exc |-> e]

\* A loop that appends to a list: head is the outcome of one iteration (the
\* entries it appends, or the exception it raises), rest the outcome of the
\* iterations after it, which run only when head did not raise.
append_step(head, rest) ==
    IF head.exc # "" THEN head
    ELSE IF rest.exc # "" THEN rest
    ELSE Ok(head.val \o rest.val)

----------------------------------------------------------------------------
(* float() and the distance engine                                         *)

\* float(text) for a decimal text with at most two fraction digits, as
\* hundredths: "47.42" is 4742, "9.3" is 930, "47" is 4700.
IsDecimalText(s) ==
    LET dots == {i \in 1..Len(s) : s[i] = "."}
    IN  /\ Cardinality(dots) <= 1
        /\ \E i \in 1..Len(s) : IsDigit(s[i])
        /\ \A i \in 1..Len(s) : IsDigit(s[i]) \/ s[i] = "."

hundredths(s) ==
    LET dots == {i \in 1..Len(s) : s[i] = "."}
        dot  == IF dots = {} THEN Len(s) + 1 ELSE CHOOSE i \in dots : TRUE
        frac == SubSeq(s, dot + 1, Len(s))
    IN  CASE Len(frac) = 0 -> 100 * int_of(SubSeq(s, 1, dot - 1))
          [] Len(frac) = 1 -> 100 * int_of(SubSeq(s, 1, dot - 1)) + 10 * int_of(frac)
          [] Len(frac) = 2 -> 100 * int_of(SubSeq(s, 1, dot - 1)) + int_of(frac)

\* float(v): a number converts, a numeric text converts, any other text is a
\* ValueError, and None, a list or a dict is a TypeError.
float(v) ==
    CASE v.t = "num" -> Ok(v.n)
      [] v.t = "str" -> IF IsDecimalText(str_strip(v.s))
                        THEN Ok(hundredths(str_strip(v.s)))
                        ELSE Raise("ValueError")
      [] OTHER       -> Raise("TypeError")

\* haversine_distance on the coordinates of the model: the value is the rank
\* of the float the code computes for the two points among the floats it
\* computes over this grid (0: 0.0 km, 1: 1.5041602..., 2: 1.5047319...,
\* 3: 1.5053034..., 4: 2.2238985328910363, 5: 2.2238985328917438,
\* 6: 2.6849735..., 7: 2.6852938..., 8: 3.0083204..., 9: 3.0094638...,
\* 10: 3.0106069..., 11: 3.7415447..., 12: 3.7424641..., 13: 4.4477970...,
\* 14: 4.6954357..., 15: 5.3702672...), so two distances compare in the
\* model exactly as the two floats compare in the code.
haversine_table ==
    <<4740, 936, 4740, 936>> :> 0 @@ <<4740, 936, 4740, 938>> :> 3 @@ <<4740, 936, 4740, 940>> :> 10 @@ <<4740, 936, 4742, 936>> :> 5 @@ <<4740, 936, 4742, 938>> :> 7 @@ <<4740, 936, 4742, 940>> :> 12 @@ <<4740, 936, 4744, 936>> :> 13 @@ <<4740, 936, 4744, 938>> :> 14 @@ <<4740, 936, 4744, 940>> :> 15 @@
    <<4740, 938, 4740, 936>> :> 3 @@ <<4740, 938, 4740, 938>> :> 0 @@ <<4740, 938, 4740, 940>> :> 3 @@ <<4740, 938, 4742, 936>> :> 7 @@ <<4740, 938, 4742, 938>> :> 5 @@ <<4740, 938, 4742, 940>> :> 7 @@ <<4740, 938, 4744, 936>> :> 14 @@ <<4740, 938, 4744, 938>> :> 13 @@ <<4740, 938, 4744, 940>> :> 14 @@
    <<4740, 940, 4740, 936>> :> 10 @@ <<4740, 940, 4740, 938>> :> 3 @@ <<4740, 940, 4740, 940>> :> 0 @@ <<4740, 940, 4742, 936>> :> 12 @@ <<4740, 940, 4742, 938>> :> 7 @@ <<4740, 940, 4742, 940>> :> 5 @@ <<4740, 940, 4744, 936>> :> 15 @@ <<4740, 940, 4744, 938>> :> 14 @@ <<4740, 940, 4744, 940>> :> 13 @@
    <<4742, 936, 4740, 936>> :> 5 @@ <<4742, 936, 4740, 938>> :> 7 @@ <<4742, 936, 4740, 940>> :> 12 @@ <<4742, 936, 4742, 936>> :> 0 @@ <<4742, 936, 4742, 938>> :> 2 @@ <<4742, 936, 4742, 940>> :> 9 @@ <<4742, 936, 4744, 936>> :> 4 @@ <<4742, 936, 4744, 938>> :> 6 @@ <<4742, 936, 4744, 940>> :> 11 @@
    <<4742, 938, 4740, 936>> :> 7 @@ <<4742, 938, 4740, 938>> :> 5 @@ <<4742, 938, 4740, 940>> :> 7 @@ <<4742, 938, 4742, 936>> :> 2 @@ <<4742, 938, 4742, 938>> :> 0 @@ <<4742, 938, 4742, 940>> :> 2 @@ <<4742, 938, 4744, 936>> :> 6 @@ <<4742, 938, 4744, 938>> :> 4 @@ <<4742, 938, 4744, 940>> :> 6 @@
    <<4742, 940, 4740, 936>> :> 12 @@ <<4742, 940, 4740, 938>> :> 7 @@ <<4742, 940, 4740, 940>> :> 5 @@ <<4742, 940, 4742, 936>> :> 9 @@ <<4742, 940, 4742, 938>> :> 2 @@ <<4742, 940, 4742, 940>> :> 0 @@ <<4742, 940, 4744, 936>> :> 11 @@ <<4742, 940, 4744, 938>> :> 6 @@ <<4742, 940, 4744, 940>> :> 4 @@
    <<4744, 936, 4740, 936>> :> 13 @@ <<4744, 936, 4740, 938>> :> 14 @@ <<4744, 936, 4740, 940>> :> 15 @@ <<4744, 936, 4742, 936>> :> 4 @@ <<4744, 936, 4742, 938>> :> 6 @@ <<4744, 936, 4742, 940>> :> 11 @@ <<4744, 936, 4744, 936>> :> 0 @@ <<4744, 936, 4744, 938>> :> 1 @@ <<4744, 936, 4744, 940>> :> 8 @@
    <<4744, 938, 4740, 936>> :> 14 @@ <<4744, 938, 4740, 938>> :> 13 @@ <<4744, 938, 4740, 940>> :> 14 @@ <<4744, 938, 4742, 936>> :> 6 @@ <<4744, 938, 4742, 938>> :> 4 @@ <<4744, 938, 4742, 940>> :> 6 @@ <<4744, 938, 4744, 936>> :> 1 @@ <<4744, 938, 4744, 938>> :> 0 @@ <<4744, 938, 4744, 940>> :> 1 @@
    <<4744, 940, 4740, 936>> :> 15 @@ <<4744, 940, 4740, 938>> :> 14 @@ <<4744, 940, 4740, 940>> :> 13 @@ <<4744, 940, 4742, 936>> :> 11 @@ <<4744, 940, 4742, 938>> :> 6 @@ <<4744, 940, 4742, 940>> :> 4 @@ <<4744, 940, 4744, 936>> :> 8 @@ <<4744, 940, 4744, 938>> :> 1 @@ <<4744, 940, 4744, 940>> :> 0

haversine_distance(lat1, lon1, lat2, lon2) == haversine_table[<<lat1, lon1, lat2, lon2>>]

----------------------------------------------------------------------------
(* list.sort(key=...)                                                      *)

\* Comparison of two keys.  A key is a tuple of integers, compared as Python
\* compares tuples and dates: by the first component that differs.
key_lt(a, b) ==
    \E i \in 1..Len(a) : a[i] < b[i] /\ \A j \in 1..(i - 1) : a[j] = b[j]

list_sort_not_sorting(s, keys) == s

\* s.sort(key=...), where keys[i] is the key of s[i].  The sort of Python is
\* stable: s[j] comes before s[i] when its key is smaller, or when the keys
\* are equal and it was before.
list_sort(s, keys) ==
    LET before(j, i) == key_lt(keys[j], keys[i]) \/ (keys[j] = keys[i] /\ j < i)
        pos(i) == 1 + Cardinality({j \in 1..Len(s) : before(j, i)})
    IN  [k \in 1..Len(s) |-> s[CHOOSE i \in 1..Len(s) : pos(i) = k]]

----------------------------------------------------------------------------
(* Collection-point index: find_collection_points                          *)

waste_types_at_point_case_sensitive(v) ==
    CASE v.t = "list" ->
            IF \E i \in 1..Len(v.l) : v.l[i].t # "str"
            THEN Raise("AttributeError")
            ELSE Ok([i \in 1..Len(v.l) |-> v.l[i].s])
      [] v.t = "str" -> Ok([i \in 1..Len(v.s) |-> <<v.s[i]>>])
      [] OTHER       -> Raise("TypeError")

\* [wt.lower() for wt in point.get("abfallarten", [])]
\* None or a number is not iterable (TypeError); an element that is not a
\* str has no lower() (AttributeError); a str iterates over its characters.
waste_types_at_point(v) ==
    CASE v.t = "list" ->
            IF \E i \in 1..Len(v.l) : v.l[i].t # "str"
            THEN Raise("AttributeError")
            ELSE Ok([i \in 1..Len(v.l) |-> str_lower(v.l[i].s)])
      [] v.t = "str" -> Ok([i \in 1..Len(v.s) |-> str_lower(<<v.s[i]>>)])
      [] OTHER       -> Raise("TypeError")

\* point["geo_point_2d"][key]: a dict without the key is a KeyError, a value
\* that is not a dict cannot be indexed by a str (TypeError).
geo_item(geo, key) ==
    IF geo.t # "dict" THEN Raise("TypeError")
    ELSE IF key \notin DOMAIN geo.d THEN Raise("KeyError")
    ELSE Ok(geo.d[key])

\* except (ValueError, KeyError)
CaughtByPointHandler(e) == e \in {"ValueError", "KeyError"}

UnknownLocation == <<"U", "n", "k", "n", "o", "w", "n", " ", "L", "o", "c", "a", "t", "i", "o", "n">>
NA == <<"N", "/", "A">>

\* One iteration of the loop over all_points: the list of point_data to
\* append (empty or one element), or the exception that leaves the loop.
collection_point_step(user_lat, user_lon, waste_type, point) ==
    IF ~(/\ "geo_point_2d" \in DOMAIN point
         /\ Truthy(point["geo_point_2d"])
         /\ "abfallarten" \in DOMAIN point)
    THEN Ok(<<>>)
    ELSE
    LET wts == waste_types_at_point(dict_get(point, "abfallarten", ListV(<<>>)))
    IN  IF wts.exc # "" THEN wts
        ELSE IF ~(\E i \in 1..Len(wts.val) : wts.val[i] = str_lower(waste_type))
        THEN Ok(<<>>)
        ELSE
        LET lat_item == geo_item(point["geo_point_2d"], "lat")
            point_lat == IF lat_item.exc # "" THEN lat_item ELSE float(lat_item.val)
            lon_item == geo_item(point["geo_point_2d"], "lon")
            point_lon == IF lon_item.exc # "" THEN lon_item ELSE float(lon_item.val)
            failed == IF point_lat.exc # "" THEN point_lat.exc ELSE point_lon.exc
        IN  IF failed # ""
            THEN IF CaughtByPointHandler(failed) THEN Ok(<<>>) ELSE Raise(failed)
            ELSE Ok(<<[name          |-> dict_get(point, "standort", StrV(UnknownLocation)),
                       lat           |-> point_lat.val,
                       lon           |-> point_lon.val,
                       distance      |-> haversine_distance(user_lat, user_lon,
                                                            point_lat.val, point_lon.val),
                       waste_types   |-> dict_get(point, "abfallarten", ListV(<<>>)),
                       opening_hours |-> dict_get(point, "oeffnungsz", StrV(NA))]>>)

\* The loop over all_points: suitable_points in the order of the dataset, or
\* the first exception that is not caught.
RECURSIVE suitable_points(_, _, _, _)
suitable_points(user_lat, user_lon, waste_type, all_points) ==
    IF all_points = <<>> THEN Ok(<<>>)
    ELSE append_step(collection_point_step(user_lat, user_lon, waste_type, all_points[1]),
                     suitable_points(user_lat, user_lon, waste_type, Tail(all_points)))

\* suitable_points.sort(key=lambda x: x["distance"]); return suitable_points
sorted_by_distance(found) ==
    IF found.exc # "" THEN found
    ELSE Ok(list_sort(found.val, [i \in 1..Len(found.val) |-> <<found.val[i].distance>>]))

find_collection_points(user_lat, user_lon, waste_type, all_points) ==
    sorted_by_distance(suitable_points(user_lat, user_lon, waste_type, all_points))

----------------------------------------------------------------------------
(* Collection-date resolver: get_next_collection_date                      *)

\* s.split(c) for a one-character separator
RECURSIVE split_on(_, _)
split_on(s, c) ==
    LET at == {i \in 1..Len(s) : s[i] = c}
    IN  IF at = {} THEN <<s>>
        ELSE LET cut == CHOOSE i \in at : \A j \in at : i <= j
             IN  <<SubSeq(s, 1, cut - 1)>> \o split_on(SubSeq(s, cut + 1, Len(s)), c)

IsLeap(y) == (y % 4 = 0 /\ y % 100 # 0) \/ y % 400 = 0

DaysInMonth(y, m) ==
    CASE m \in {1, 3, 5, 7, 8, 10, 12} -> 31
      [] m \in {4, 6, 9, 11}           -> 30
      [] m = 2                         -> IF IsLeap(y) THEN 29 ELSE 28

\* datetime.strptime(date_str, '%Y-%m-%d').date(): a date is <<year, month, day>>.
\* %Y is four digits, %m is one or two digits naming 1..12, %d is one or two
\* digits naming a day of that month; any other text is a ValueError, and an
\* argument that is not a str is a TypeError.
strptime(v) ==
    IF v.t # "str" THEN Raise("TypeError")
    ELSE
    LET f == split_on(v.s, "-")
    IN  IF /\ Len(f) = 3
           /\ AllDigits(f[1]) /\ Len(f[1]) = 4 /\ int_of(f[1]) >= 1
           /\ AllDigits(f[2]) /\ Len(f[2]) <= 2 /\ int_of(f[2]) \in 1..12
           /\ AllDigits(f[3]) /\ Len(f[3]) <= 2
           /\ int_of(f[3]) \in 1..DaysInMonth(int_of(f[1]), int_of(f[2]))
        THEN Ok(<<int_of(f[1]), int_of(f[2]), int_of(f[3])>>)
        ELSE Raise("ValueError")

date_lt_or_equal(a, b) ==
    \/ a[1] < b[1]
    \/ a[1] = b[1] /\ a[2] < b[2]
    \/ a[1] = b[1] /\ a[2] = b[2] /\ a[3] <= b[3]

\* date_obj > today, as today < date_obj
date_lt(a, b) ==
    \/ a[1] < b[1]
    \/ a[1] = b[1] /\ a[2] < b[2]
    \/ a[1] = b[1] /\ a[2] = b[2] /\ a[3] < b[3]

\* \s+ from index i: the last index of the maximal run of whitespace that
\* starts at i; i - 1 when there is none
space_run_end(s, i) ==
    LET ends == {j \in (i - 1)..Len(s) : \A k \in i..j : IsSpace(s[k])}
    IN  CHOOSE j \in ends : \A k \in ends : k <= j

\* \d+ from index i: the last index of the maximal run of digits that starts
\* at i; i - 1 when there is none
digit_run_end(s, i) ==
    LET ends == {j \in (i - 1)..Len(s) : \A k \in i..j : IsDigit(s[k])}
    IN  CHOOSE j \in ends : \A k \in ends : k <= j

\* whether r'ab\s+(\d+)[\.:]' matches s at index i
time_match_at(s, i) ==
    /\ i + 1 <= Len(s)
    /\ s[i] = "a"
    /\ s[i + 1] = "b"
    /\ LET sp == space_run_end(s, i + 2)
           dg == digit_run_end(s, sp + 1)
       IN  /\ sp >= i + 2
           /\ dg >= sp + 1
           /\ dg + 1 <= Len(s)
           /\ s[dg + 1] \in {".", ":"}

\* re.search(r'ab\s+(\d+)[\.:]', time_str): the leftmost match and its group 1
time_match(s) ==
    LET at == {i \in 1..Len(s) : time_match_at(s, i)}
    IN  IF at = {} THEN [matched |-> FALSE]
        ELSE LET i  == CHOOSE k \in at : \A j \in at : k <= j
                 sp == space_run_end(s, i + 2)
                 dg == digit_run_end(s, sp + 1)
             IN  [matched |-> TRUE, group |-> SubSeq(s, sp + 1, dg)]

Collection == <<"C", "o", "l", "l", "e", "c", "t", "i", "o", "n">>

relevant_date(item, date_obj, time) ==
    [date        |-> date_obj,
     time        |-> time,
     description |-> dict_get(item, "titel", StrV(Collection)),
     area        |-> dict_get(item, "gebietsbezeichnung", StrV(NA))]

collection_not_in_past(collection_hour, current_hour) == collection_hour >= current_hour

\* if collection_hour > current_hour
collection_in_future(collection_hour, current_hour) == collection_hour > current_hour

\* The body of the try block for one matching record once the date is
\* parsed (parsed is the outcome of strptime), with today and current_hour
\* read from datetime.now(): the entries appended to relevant_dates (none or
\* one), or the exception raised.
date_entry(item, parsed, today, current_hour) ==
    IF parsed.exc # "" THEN parsed
    ELSE IF date_lt(today, parsed.val)
    THEN Ok(<<relevant_date(item, parsed.val, dict_get(item, "zeit", StrV(NA)))>>)
    ELSE IF parsed.val = today
    THEN LET time_str == dict_get(item, "zeit", StrV(<<>>))
         IN  IF time_str.t # "str" THEN Raise("TypeError")
             ELSE LET m == time_match(time_str.s)
                  IN  IF m.matched
                      THEN IF collection_in_future(int_of(m.group), current_hour)
                           THEN Ok(<<relevant_date(item, parsed.val, time_str)>>)
                           ELSE Ok(<<>>)
                      ELSE Ok(<<relevant_date(item, parsed.val, time_str)>>)
    ELSE Ok(<<>>)

\* date_str = item.get('datum'); if date_str: date_obj = strptime(...) and the
\* rest of the try block
date_step(item, today, current_hour) ==
    IF ~Truthy(dict_get(item, "datum", Null)) THEN Ok(<<>>)
    ELSE date_entry(item, strptime(dict_get(item, "datum", Null)), today, current_hour)

\* the same with only the test cleaned_street_name in street_lower
street_matches_one_way(cleaned_street_name, street) ==
    str_in(cleaned_street_name, str_strip(str_lower(street)))

\* if cleaned_street_name in street_lower or street_lower in cleaned_street_name
street_matches(cleaned_street_name, street) ==
    LET street_lower == str_strip(str_lower(street))
    IN  str_in(cleaned_street_name, street_lower) \/ str_in(street_lower, cleaned_street_name)

\* The loop over the streets of one record: a ValueError of the try block
\* continues with the next street, any other outcome of a matching street
\* leaves the loop (break), any other exception leaves the function.
RECURSIVE street_loop(_, _, _, _, _)
street_loop(item, streets, cleaned_street_name, today, current_hour) ==
    IF streets = <<>> THEN Ok(<<>>)
    ELSE IF streets[1].t # "str"
    THEN street_loop(item, Tail(streets), cleaned_street_name, today, current_hour)
    ELSE IF street_matches(cleaned_street_name, streets[1].s)
    THEN LET r == date_step(item, today, current_hour)
         IN  IF r.exc = "ValueError"
             THEN street_loop(item, Tail(streets), cleaned_street_name, today, current_hour)
             ELSE r
    ELSE street_loop(item, Tail(streets), cleaned_street_name, today, current_hour)

\* One iteration of the loop over all_dates.
collection_date_step(item, cleaned_street_name, waste_type, today, current_hour) ==
    LET sammlung == dict_get(item, "sammlung", StrV(<<>>))
    IN  IF sammlung.t # "str" THEN Raise("AttributeError")
        ELSE IF str_lower(sammlung.s) # str_lower(waste_type) THEN Ok(<<>>)
        ELSE LET streets == dict_get(item, "strasse", ListV(<<>>))
             IN  street_loop(item, IF streets.t = "list" THEN streets.l ELSE <<streets>>,
                             cleaned_street_name, today, current_hour)

RECURSIVE relevant_dates(_, _, _, _, _)
relevant_dates(cleaned_street_name, waste_type, all_dates, today, current_hour) ==
    IF all_dates = <<>> THEN Ok(<<>>)
    ELSE append_step(collection_date_step(all_dates[1], cleaned_street_name, waste_type,
                                          today, current_hour),
                     relevant_dates(cleaned_street_name, waste_type, Tail(all_dates),
                                    today, current_hour))

\* relevant_dates.sort(key=lambda x: x['date']); the first entry if there is
\* one, else None (Null)
first_by_date(found) ==
    IF found.exc # "" THEN found
    ELSE IF found.val = <<>> THEN Ok(Null)
    ELSE Ok(list_sort(found.val, [i \in 1..Len(found.val) |-> found.val[i].date])[1])

\* get_next_collection_date, with the value of datetime.now() as today and
\* current_hour.  None is Null.
get_next_collection_date(street_name, waste_type, all_dates, today, current_hour) ==
    first_by_date(relevant_dates(str_strip(str_lower(street_name)), waste_type, all_dates,
                                 today, current_hour))

----------------------------------------------------------------------------
(* Waste-type vocabulary                                                   *)

Aluminium == <<"A", "l", "u", "m", "i", "n", "i", "u", "m">>
Dosen == <<"D", "o", "s", "e", "n">>
Glas == <<"G", "l", "a", "s">>
Papier == <<"P", "a", "p", "i", "e", "r">>
Karton == <<"K", "a", "r", "t", "o", "n">>
Kehricht == <<"K", "e", "h", "r", "i", "c", "h", "t">>
Altmetall == <<"A", "l", "t", "m", "e", "t", "a", "l", "l">>
Sonderabfall == <<"S", "o", "n", "d", "e", "r", "a", "b", "f", "a", "l", "l">>
Gruengut == <<"G", "r", "ü", "n", "g", "u", "t">>
Alttextilien == <<"A", "l", "t", "t", "e", "x", "t", "i", "l", "i", "e", "n">>
Altoel == <<"A", "l", "t", "ö", "l">>
Styropor == <<"S", "t", "y", "r", "o", "p", "o", "r">>
Aluminum == <<"A", "l", "u", "m", "i", "n", "u", "m">>
Cans == <<"C", "a", "n", "s">>
Glass == <<"G", "l", "a", "s", "s">>
Paper == <<"P", "a", "p", "e", "r">>
Cardboard == <<"C", "a", "r", "d", "b", "o", "a", "r", "d">>
HouseholdWaste == <<"H", "o", "u", "s", "e", "h", "o", "l", "d", " ", "w", "a", "s", "t", "e">>
Metal == <<"M", "e", "t", "a", "l">>
HazardousWaste == <<"H", "a", "z", "a", "r", "d", "o", "u", "s", " ", "w", "a", "s", "t", "e">>
GreenWaste == <<"G", "r", "e", "e", "n", " ", "w", "a", "s", "t", "e">>
Textiles == <<"T", "e", "x", "t", "i", "l", "e", "s">>
Oil == <<"O", "i", "l">>
FoamPackaging == <<"F", "o", "a", "m", " ", "p", "a", "c", "k", "a", "g", "i", "n", "g">>

\* the dict of translate_waste_type, as <<key, value>> pairs
translations ==
    << <<Aluminium, Aluminum>>, <<Dosen, Cans>>, <<Glas, Glass>>, <<Papier, Paper>>,
       <<Karton, Cardboard>>, <<Kehricht, HouseholdWaste>>, <<Altmetall, Metal>>,
       <<Sonderabfall, HazardousWaste>>, <<Gruengut, GreenWaste>>,
       <<Alttextilien, Textiles>>, <<Altoel, Oil>>, <<Styropor, FoamPackaging>> >>

\* mapping.get(key, default) for a dict given as <<key, value>> pairs
mapping_get(mapping, key, default) ==
    IF \E i \in 1..Len(mapping) : mapping[i][1] = key
    THEN mapping[CHOOSE i \in 1..Len(mapping) : mapping[i][1] = key][2]
    ELSE default

translate_waste_type(waste_type) == mapping_get(translations, waste_type, waste_type)

get_available_waste_types ==
    <<Kehricht, Papier, Karton, Gruengut, Altmetall, Glas, Dosen, Aluminium,
      Alttextilien, Altoel, Sonderabfall, Styropor>>

\* the dict waste_type_mapping of handle_waste_disposal
waste_type_mapping ==
    << <<(<<"p", "a", "p", "e", "r">>), Papier>>,
       <<(<<"c", "a", "r", "d", "b", "o", "a", "r", "d">>), Karton>>,
       <<(<<"h", "o", "u", "s", "e", "h", "o", "l", "d", " ", "w", "a", "s", "t", "e">>), Kehricht>>,
       <<(<<"g", "r", "e", "e", "n", " ", "w", "a", "s", "t", "e">>), Gruengut>>,
       <<(<<"m", "e", "t", "a", "l">>), Altmetall>>,
       <<(<<"a", "l", "u", "m", "i", "n", "u", "m">>), Aluminium>>,
       <<(<<"g", "l", "a", "s", "s">>), Glas>>,
       <<(<<"o", "i", "l">>), Altoel>>,
       <<(<<"t", "e", "x", "t", "i", "l", "e", "s">>), Alttextilien>>,
       <<(<<"c", "a", "n", "s">>), Dosen>> >>

\* if waste_type.lower() in waste_type_mapping: waste_type = waste_type_mapping[...]
normalize_waste_type(waste_type) ==
    mapping_get(waste_type_mapping, str_lower(waste_type), waste_type)

----------------------------------------------------------------------------
(* Geocoder: get_coordinates                                               *)

ST_GALLEN_BOUNDS == [min_lat |-> 4736, max_lat |-> 4748, min_lon |-> 930, max_lon |-> 945]

gallen == <<"g", "a", "l", "l", "e", "n">>

\* s.replace(" ", "")
remove_spaces(s) == SelectSeq(s, LAMBDA c : c # " ")

\* the q parameter of the request
search_address(address) ==
    IF /\ ~str_in(<<"s", "t", ".", " ", "g", "a", "l", "l", "e", "n">>, str_lower(address))
       /\ ~str_in(<<"s", "t", ".", "g", "a", "l", "l", "e", "n">>,
                  remove_spaces(str_lower(address)))
    THEN address \o <<",", " ", "S", "t", ".", " ", "G", "a", "l", "l", "e", "n", ",", " ",
                      "S", "w", "i", "t", "z", "e", "r", "l", "a", "n", "d">>
    ELSE address

\* any("gallen" in str(value).lower() for key, value in address_parts.items())
st_gallen_mentioned(address_parts) ==
    \E key \in DOMAIN address_parts :
        /\ address_parts[key].t = "str"
        /\ str_in(gallen, str_lower(address_parts[key].s))

\* The body of the loop over the candidates for one candidate, lat and lon
\* being the outcomes of the two conversions:
\* [exc |-> "", accept |-> TRUE, val |-> {lat, lon}] when it is returned,
\* [exc |-> "", accept |-> FALSE] when the loop goes on, or the exception
\* that leaves the loop (a ValueError or KeyError is caught inside it).
candidate_checked(candidate, lat, lon) ==
    LET failed == IF lat.exc # "" THEN lat.exc ELSE lon.exc
        display_name == dict_get(candidate, "display_name", StrV(<<>>))
        address_parts == dict_get(candidate, "address", Dict(<<>>))
    IN  IF failed \in {"ValueError", "KeyError"} THEN [exc |-> "", accept |-> FALSE]
        ELSE IF failed # "" THEN Raise(failed)
        ELSE IF ~(/\ ST_GALLEN_BOUNDS.min_lat <= lat.val
                  /\ lat.val <= ST_GALLEN_BOUNDS.max_lat
                  /\ ST_GALLEN_BOUNDS.min_lon <= lon.val
                  /\ lon.val <= ST_GALLEN_BOUNDS.max_lon)
        THEN [exc |-> "", accept |-> FALSE]
        ELSE IF display_name.t # "str" THEN Raise("AttributeError")
        ELSE IF address_parts.t # "dict" THEN Raise("AttributeError")
        ELSE IF str_in(gallen, str_lower(display_name.s)) \/ st_gallen_mentioned(address_parts.d)
        THEN [exc |-> "", accept |-> TRUE, val |-> [lat |-> lat.val, lon |-> lon.val]]
        ELSE [exc |-> "", accept |-> FALSE]

\* lat = float(result["lat"]); lon = float(result["lon"]) and the checks
candidate_step(candidate) ==
    candidate_checked(candidate,
                      IF "lat" \notin DOMAIN candidate THEN Raise("KeyError")
                      ELSE float(candidate["lat"]),
                      IF "lon" \notin DOMAIN candidate THEN Raise("KeyError")
                      ELSE float(candidate["lon"]))

RECURSIVE candidate_loop(_)
candidate_loop(data) ==
    IF data = <<>> THEN [exc |-> "", accept |-> FALSE]
    ELSE LET r == candidate_step(data[1])
         IN  IF r.exc # "" \/ r.accept THEN r ELSE candidate_loop(Tail(data))

\* get_coordinates(address), given the answer of the geocoding service:
\* [kind |-> "RequestException"] for a transport or status failure, or
\* [kind |-> "ok", data |-> <the decoded list of candidates>].
\* val is the coordinate or Null (None); notice is the st.warning or st.error
\* shown.  Every exception is caught (except Exception).
get_coordinates(address, response) ==
    IF response.kind # "ok"
    THEN [val |-> Null, notice |-> "error: fetching coordinates"]
    ELSE IF response.data = <<>>
    THEN [val |-> Null, notice |-> "warning: could not find coordinates"]
    ELSE LET r == candidate_loop(response.data)
         IN  IF r.exc # "" THEN [val |-> Null, notice |-> "error: unexpected"]
             ELSE IF r.accept THEN [val |-> r.val, notice |-> ""]
             ELSE [val |-> Null, notice |-> "warning: outside St. Gallen"]

----------------------------------------------------------------------------
(* Dataset fetches                                                         *)

\* fetch_collection_points, given the answer of the dataset service:
\* [kind |-> "error"] or [kind |-> "ok", results |-> <the records>]
fetch_collection_points(response) ==
    IF response.kind # "ok" THEN <<>> ELSE response.results

limit == 100

\* One pass of the while loop of fetch_collection_dates that ignores the
\* reported total_count, so that only a short or an empty page ends the loop.
fetch_pages_ignoring_total_count(answer, offset, all_results) ==
    IF answer.kind # "ok" THEN [pc |-> "raise"]
    ELSE IF answer.results = <<>>
         THEN [pc |-> "break", offset |-> offset, all_results |-> all_results]
    ELSE IF Len(answer.results) < limit
         THEN [pc |-> "break", offset |-> offset,
               all_results |-> all_results \o answer.results]
    ELSE [pc |-> "loop", offset |-> offset + limit,
          all_results |-> all_results \o answer.results]

\* One pass of the while loop that leaves the loop with what it has
\* accumulated when the request fails.
fetch_pages_keeping_results(answer, offset, all_results) ==
    IF answer.kind # "ok"
    THEN [pc |-> "break", offset |-> offset, all_results |-> all_results]
    ELSE IF answer.results = <<>>
         THEN [pc |-> "break", offset |-> offset, all_results |-> all_results]
    ELSE IF Len(all_results \o answer.results) >= answer.total_count
            \/ Len(answer.results) < limit
         THEN [pc |-> "break", offset |-> offset,
               all_results |-> all_results \o answer.results]
    ELSE [pc |-> "loop", offset |-> offset + limit,
          all_results |-> all_results \o answer.results]

\* One pass of the while loop of fetch_collection_dates (lines 266-298), with
\* the request made at offset and answered by answer: [kind |-> "error"]
\* (transport error, bad status, undecodable body) or
\* [kind |-> "ok", results |-> <records>, total_count |-> n].  The pass
\* raises, leaves the loop or goes round again with offset + limit.
fetch_pages(answer, offset, all_results) ==
    IF answer.kind # "ok" THEN [pc |-> "raise"]
    ELSE IF answer.results = <<>>
         THEN [pc |-> "break", offset |-> offset, all_results |-> all_results]
    ELSE IF Len(all_results \o answer.results) >= answer.total_count
            \/ Len(answer.results) < limit
         THEN [pc |-> "break", offset |-> offset,
               all_results |-> all_results \o answer.results]
    ELSE [pc |-> "loop", offset |-> offset + limit,
          all_results |-> all_results \o answer.results]

\* fetch_collection_dates from the request at offset on, where pages[k] is
\* the answer to the k-th request and a request past the last of them fails.
\* Any exception returns [], and so does an empty all_results.
RECURSIVE fetch_collection_dates(_, _, _)
fetch_collection_dates(pages, offset, all_results) ==
    LET k == offset \div limit + 1
        answer == IF k > Len(pages) THEN [kind |-> "error"] ELSE pages[k]
        pass == fetch_pages(answer, offset, all_results)
    IN  IF pass.pc = "raise" THEN <<>>
        ELSE IF pass.pc = "break" THEN pass.all_results
        ELSE fetch_collection_dates(pages, pass.offset, pass.all_results)

----------------------------------------------------------------------------
(* Disposal orchestrator: handle_waste_disposal                            *)

\* re.match(r'\d+', part): the token starts with a digit
starts_with_number(part) == part # <<>> /\ IsDigit(part[1])

\* the street name extracted from the address
extract_street_name(address) ==
    LET street_parts == str_split(address)
    IN  IF Len(street_parts) >= 2
        THEN str_join(SelectSeq(street_parts, LAMBDA part : ~starts_with_number(part)))
        ELSE address

\* whether the record lists the street: s.lower().strip() == street_name.lower().strip()
street_found(item, street_name) ==
    LET v == dict_get(item, "strasse", ListV(<<>>))
        streets == IF v.t = "list" THEN v.l ELSE <<v>>
    IN  \E i \in 1..Len(streets) :
            /\ streets[i].t = "str"
            /\ str_strip(str_lower(streets[i].s)) = str_strip(str_lower(street_name))

\* the set available_waste_types: the 'sammlung' of every record that lists
\* the street
available_waste_types(all_dates, street_name) ==
    {all_dates[i]["sammlung"] :
        i \in {j \in 1..Len(all_dates) : /\ street_found(all_dates[j], street_name)
                                         /\ "sammlung" \in DOMAIN all_dates[j]}}

\* [translate_waste_type(wt) for wt in available_waste_types], as a set.  Every
\* member is a str here: get_next_collection_date has called lower() on the
\* 'sammlung' of every record before and raised on any other value.
available_types(available) == {translate_waste_type(wt.s) : wt \in available}

\* The f-strings of the messages, with the interpolated values named.
MessageTwoOptions ==
    "You have two options for {waste}: 1. collection from home on {date} {time} 2. {count} disposal points nearby"

MessageDropOffOtherServices ==
    "{waste} can be dropped off at {count} nearby locations. There is no scheduled home collection service for {waste} on {street}. Available collection services for your street include: {services}."

MessageDropOffOnly ==
    "{waste} can be dropped off at {count} nearby locations. There is no scheduled home collection service for this waste type in your area."

MessageCollectedFromHome ==
    "{waste} will be collected on {date} {time}. This waste type is typically collected directly from homes in your area."

MessageRecyclingCenter ==
    "No disposal options found for {waste} at {street}. Available collection services for your street include: {services}. You may need to visit a recycling center for {waste}."

MessageCheckSchedule ==
    "No upcoming collection dates found for {waste} at your address. This waste type is typically collected from homes. Please check the official schedule or contact the local waste management office for more information."

MessageContactOffice ==
    "No disposal options found for {waste}. Please check the waste type or contact the local waste management office."

MessageCouldNotGeocode ==
    "Could not find coordinates for address: {address}. Please try a more specific address."

MessageEmpty == ""

typical_collection_types_only_paper == {Papier}

typical_collection_types == {Papier, Karton, Kehricht, Gruengut}

\* The message of the report: the f-string chosen, with the values it
\* interpolates.  The empty message "" is [template |-> ""].
message(waste_type, street_name, collection_points, next_date,
        has_disposal_locations, has_scheduled_collection, available) ==
    LET waste_type_display == translate_waste_type(waste_type)
    IN  IF has_disposal_locations /\ has_scheduled_collection
        THEN [template |-> MessageTwoOptions,
              waste |-> waste_type_display, date |-> next_date.date,
              time |-> next_date.time, count |-> Len(collection_points)]
        ELSE IF has_disposal_locations
        THEN IF available # {}
             THEN [template |-> MessageDropOffOtherServices,
                   waste |-> waste_type_display, count |-> Len(collection_points),
                   street |-> street_name, services |-> available_types(available)]
             ELSE [template |-> MessageDropOffOnly,
                   waste |-> waste_type_display, count |-> Len(collection_points)]
        ELSE IF has_scheduled_collection
        THEN [template |-> MessageCollectedFromHome,
              waste |-> waste_type_display, date |-> next_date.date,
              time |-> next_date.time]
        ELSE IF available # {}
        THEN [template |-> MessageRecyclingCenter,
              waste |-> waste_type_display, street |-> street_name,
              services |-> available_types(available)]
        ELSE IF waste_type \in typical_collection_types
        THEN [template |-> MessageCheckSchedule,
              waste |-> waste_type_display]
        ELSE [template |-> MessageContactOffice,
              waste |-> waste_type_display]

has_disposal_locations_one_is_none(collection_points) == Len(collection_points) > 1

\* results["has_disposal_locations"] = len(collection_points) > 0
has_disposal_locations(collection_points) == Len(collection_points) > 0

\* results["has_scheduled_collection"] = next_date is not None
has_scheduled_collection(next_date) == next_date # Null

initial_results_with_flag_set(waste_type) ==
    [waste_type |-> waste_type,
     collection_points |-> <<>>,
     next_collection_date |-> Null,
     has_disposal_locations |-> FALSE,
     has_scheduled_collection |-> TRUE,
     message |-> [template |-> ""]]

\* the dict results as it is first built
initial_results(waste_type) ==
    [waste_type |-> waste_type,
     collection_points |-> <<>>,
     next_collection_date |-> Null,
     has_disposal_locations |-> FALSE,
     has_scheduled_collection |-> FALSE,
     message |-> [template |-> MessageEmpty]]

\* handle_waste_disposal after the geocoding succeeded and the datasets were
\* fetched: normalized is the waste type after normalisation, and
\* collection_points and next_date are the outcomes of the two lookups.
disposal_report(waste_type, normalized, street_name, all_dates, collection_points, next_date) ==
    IF collection_points.exc # ""
    THEN [exc |-> collection_points.exc,
          requests |-> <<"nominatim", "sammelstellen", "abfuhrdaten">>, notice |-> ""]
    ELSE IF next_date.exc # ""
    THEN [exc |-> next_date.exc,
          requests |-> <<"nominatim", "sammelstellen", "abfuhrdaten">>, notice |-> "",
          lookup |-> [waste_type |-> normalized, street_name |-> street_name]]
    ELSE [exc |-> "", requests |-> <<"nominatim", "sammelstellen", "abfuhrdaten">>,
          notice |-> "",
          lookup |-> [waste_type |-> normalized, street_name |-> street_name],
          ret |-> [initial_results(waste_type) EXCEPT
                      !.collection_points = collection_points.val,
                      !.next_collection_date = next_date.val,
                      !.has_disposal_locations = has_disposal_locations(collection_points.val),
                      !.has_scheduled_collection = has_scheduled_collection(next_date.val),
                      !.message = message(normalized, street_name, collection_points.val,
                                          next_date.val,
                                          has_disposal_locations(collection_points.val),
                                          has_scheduled_collection(next_date.val),
                                          available_waste_types(all_dates, street_name))]]

\* handle_waste_disposal that hands back None in place of the dict results
handle_waste_disposal_returning_none(address, waste_type, geo, points, dates, today, current_hour) ==
    [exc |-> "", requests |-> <<"nominatim">>, notice |-> "", ret |-> Null]

\* handle_waste_disposal(address, waste_type), given what the three services
\* answer (geo, points, dates) and datetime.now() (today, current_hour).
\* ret is the report returned, or exc the exception that reaches the caller;
\* requests lists the services that were asked, in order; lookup is the
\* waste type and street name the two lookups ran with.
handle_waste_disposal(address, waste_type, geo, points, dates, today, current_hour) ==
    LET coordinates == get_coordinates(address, geo)
        normalized == normalize_waste_type(waste_type)
        street_name == extract_street_name(address)
        all_dates == fetch_collection_dates(dates, 0, <<>>)
    IN  IF coordinates.val = Null
        THEN [exc |-> "", requests |-> <<"nominatim">>, notice |-> coordinates.notice,
              ret |-> [initial_results(waste_type) EXCEPT
                          !.message = [template |-> MessageCouldNotGeocode,
                                       address |-> address]]]
        ELSE disposal_report(waste_type, normalized, street_name, all_dates,
                             find_collection_points(coordinates.val.lat, coordinates.val.lon,
                                                    normalized,
                                                    fetch_collection_points(points)),
                             get_next_collection_date(street_name, normalized, all_dates,
                                                      today, current_hour))
----------------------------------------------------------------------------
(* Inputs of the model                                                     *)

MaxPoints == 3
MaxDates == 2
MaxHandlePoints == 1
MaxHandleDates == 2

SeqsUpTo(S, n) == UNION {[1..k -> S] : k \in 0..n}

Bahnhofstrasse == <<"B", "a", "h", "n", "h", "o", "f", "s", "t", "r", "a", "s", "s", "e">>
Rosenweg == <<"R", "o", "s", "e", "n", "w", "e", "g">>
Ab14 == <<"a", "b", " ", "1", "4", ":", "0", "0">>
From14 == <<"f", "r", "o", "m", " ", "1", "4", ":", "0", "0">>
Ab7Uhr == <<"a", "b", " ", "7", ".", "0", "0", " ", "U", "h", "r">>
D0531 == <<"2", "0", "2", "5", "-", "0", "5", "-", "3", "1">>
D0601 == <<"2", "0", "2", "5", "-", "0", "6", "-", "0", "1">>
D0602 == <<"2", "0", "2", "5", "-", "0", "6", "-", "0", "2">>
D0615 == <<"2", "0", "2", "5", "-", "0", "6", "-", "1", "5">>

\* a record of the dataset sammelstellen
Point(standort, lat, lon, abfallarten) ==
    [standort     |-> StrV(standort),
     geo_point_2d |-> Dict([lat |-> lat, lon |-> lon]),
     abfallarten  |-> abfallarten]

WasteList(l) == ListV([i \in 1..Len(l) |-> StrV(l[i])])

\* points with well-formed coordinates and waste types
WellFormedPoints ==
    { Point(<<"A">>, Num(4742), Num(936), WasteList(<<Glas, Papier>>)),
      Point(<<"B">>, Num(4742), Num(940), WasteList(<<Papier>>)),
      Point(<<"C">>, Num(4742), Num(936), WasteList(<<Karton, <<"P", "A", "P", "I", "E", "R">> >>)),
      Point(<<"E">>, StrV(<<"4", "7", ".", "4", "0">>), StrV(<<"9", ".", "3", "8">>),
            WasteList(<<Papier, Sonderabfall>>)) }

\* points with missing or malformed coordinate data
MalformedCoordinatePoints ==
    { [standort |-> StrV(<<"F">>), abfallarten |-> WasteList(<<Papier>>)],
      [standort |-> StrV(<<"H">>), geo_point_2d |-> Dict([lat |-> Num(4742)]),
       abfallarten |-> WasteList(<<Papier>>)],
      Point(<<"I">>, StrV(<<"n", "/", "a">>), Num(938), WasteList(<<Papier>>)),
      Point(<<"J">>, Null, Num(938), WasteList(<<Papier>>)) }

\* points with a missing or null list of waste types
MalformedWastePoints ==
    { Point(<<"M">>, Num(4742), Num(938), Null) }

UserCoordinates == {[lat |-> 4742, lon |-> 938], [lat |-> 4740, lon |-> 936]}

FindWasteTypes == {Papier, <<"p", "a", "p", "i", "e", "r">>, Glas}

\* a record of the dataset abfuhrdaten-stadt-stgallen
Event(sammlung, strasse, datum, zeit, titel) ==
    [sammlung |-> sammlung, strasse |-> strasse, datum |-> datum, zeit |-> zeit,
     titel |-> StrV(titel)]

Today == <<2025, 6, 1>>

Hours == {10, 14, 18}

\* events whose fields have the types the dataset documents
WellFormedEvents ==
    { Event(StrV(Papier), WasteList(<<Rosenweg, Bahnhofstrasse>>), StrV(D0615), StrV(Ab7Uhr), <<"1">>),
      Event(StrV(Papier), StrV(Bahnhofstrasse), StrV(D0602), StrV(Ab14), <<"2">>),
      Event(StrV(<<"p", "a", "p", "i", "e", "r">>), WasteList(<<Bahnhofstrasse>>), StrV(D0602),
            StrV(Ab7Uhr), <<"3">>),
      Event(StrV(Papier), WasteList(<<Bahnhofstrasse>>), StrV(D0601), StrV(Ab14), <<"4">>),
      Event(StrV(Papier), WasteList(<<Bahnhofstrasse>>), StrV(D0601), StrV(From14), <<"5">>),
      Event(StrV(Papier), WasteList(<<Bahnhofstrasse>>), StrV(D0531), StrV(Ab14), <<"7">>),
      Event(StrV(Papier), WasteList(<<Bahnhofstrasse>>), StrV(D0531), StrV(From14), <<"8">>),
      Event(StrV(Papier), WasteList(<<Bahnhofstrasse>>),
            StrV(<<"0", "1", ".", "0", "6", ".", "2", "0", "2", "5">>), StrV(Ab14), <<"9">>),
      Event(StrV(Glas), WasteList(<<Bahnhofstrasse>>), StrV(D0602), StrV(Ab14), <<"1", "0">>),
      [sammlung |-> StrV(Papier), strasse |-> WasteList(<<Bahnhofstrasse>>), datum |-> StrV(D0601),
       titel |-> StrV(<<"1", "2">>)] }

\* events with a null or wrongly typed field
MalformedEvents ==
    { Event(Null, WasteList(<<Bahnhofstrasse>>), StrV(D0602), StrV(Ab14), <<"1", "3">>),
      Event(StrV(Papier), WasteList(<<Bahnhofstrasse>>), StrV(D0601), Null, <<"1", "4">>) }

\* the answers of the geocoding service
Candidate(lat, lon, display_name) ==
    [lat |-> lat, lon |-> lon, display_name |-> StrV(display_name),
     address |-> Dict([country |-> StrV(<<"S", "c", "h", "w", "e", "i", "z">>)])]

GeocodeFound ==
    [kind |-> "ok",
     data |-> <<Candidate(StrV(<<"4", "7", ".", "4", "2">>), StrV(<<"9", ".", "3", "8">>),
                          <<"S", "t", ".", " ", "G", "a", "l", "l", "e", "n">>)>>]

GeocodeFailures ==
    { [kind |-> "RequestException"],
      [kind |-> "ok", data |-> <<>>],
      [kind |-> "ok",
       data |-> <<Candidate(StrV(<<"4", "7", ".", "3", "7">>), StrV(<<"8", ".", "5", "4">>),
                            <<"Z", "ü", "r", "i", "c", "h">>)>>],
      [kind |-> "ok",
       data |-> <<Candidate(Null, StrV(<<"9", ".", "3", "8">>),
                            <<"S", "t", ".", " ", "G", "a", "l", "l", "e", "n">>)>>] }

\* the answers of the two dataset services
PointsResponses(S, n) ==
    {[kind |-> "error"]} \cup {[kind |-> "ok", results |-> l] : l \in SeqsUpTo(S, n)}

DatesResponses(S, n) ==
    {<<[kind |-> "error"]>>}
    \cup {<<[kind |-> "ok", results |-> l, total_count |-> Len(l)]>> : l \in SeqsUpTo(S, n)}

PointA == Point(<<"A">>, Num(4742), Num(936), WasteList(<<Glas, Papier>>))

HandlePoints ==
    { PointA,
      Point(<<"E">>, Num(4740), Num(938), WasteList(<<Sonderabfall, Styropor>>)),
      Point(<<"J">>, Null, Num(938), WasteList(<<Papier>>)) }

EventFuture == Event(StrV(Papier), StrV(Bahnhofstrasse), StrV(D0602), StrV(Ab14), <<"2">>)

HandleEvents ==
    { EventFuture,
      Event(StrV(Papier), WasteList(<<Bahnhofstrasse>>), StrV(D0531), StrV(Ab14), <<"7">>),
      Event(StrV(Glas), WasteList(<<Bahnhofstrasse>>), StrV(D0602), StrV(Ab14), <<"1", "0">>),
      Event(Null, WasteList(<<Bahnhofstrasse>>), StrV(D0602), StrV(Ab14), <<"1", "3">>) }

Addresses ==
    { <<"B", "a", "h", "n", "h", "o", "f", "s", "t", "r", "a", "s", "s", "e", " ", "5">>,
      Rosenweg }

\* the twelve categories in both vocabularies, in other letter cases, and a
\* waste type outside the vocabulary
Vocabulary ==
    {translations[i][1] : i \in 1..Len(translations)}
    \cup {translations[i][2] : i \in 1..Len(translations)}
    \cup {str_lower(translations[i][2]) : i \in 1..Len(translations)}
    \cup { <<"P", "A", "P", "E", "R">>,
           <<"B", "a", "t", "t", "e", "r", "i", "e", "s">> }

HandleInput(address, waste_type, geo, points, dates, current_hour) ==
    [address |-> address, waste_type |-> waste_type, geo |-> geo, points |-> points,
     dates |-> dates, today |-> Today, current_hour |-> current_hour]

\* the datasets vary
OrchestrationInputs ==
    { HandleInput(address, waste_type, GeocodeFound, points, dates, 10) :
        address \in Addresses, waste_type \in {Papier, Paper, Glas},
        points \in PointsResponses(HandlePoints, MaxHandlePoints),
        dates \in DatesResponses(HandleEvents, MaxHandleDates) }

\* the answer of the geocoding service varies
GeocodingInputs ==
    { HandleInput(address, Papier, geo, [kind |-> "ok", results |-> <<PointA>>],
                  <<[kind |-> "ok", results |-> <<EventFuture>>, total_count |-> 1]>>, 10) :
        address \in Addresses, geo \in GeocodeFailures \cup {GeocodeFound} }

\* the address is the empty str
EmptyAddressInputs ==
    { HandleInput(<<>>, Papier, geo, [kind |-> "ok", results |-> <<PointA>>],
                  <<[kind |-> "ok", results |-> <<EventFuture>>, total_count |-> 1]>>, 10) :
        geo \in GeocodeFailures \cup {GeocodeFound} }

\* the address holds tokens with digits
StreetNameInputs ==
    { HandleInput(address, Papier, GeocodeFound, [kind |-> "ok", results |-> <<PointA>>],
                  <<[kind |-> "ok", results |-> <<EventFuture>>, total_count |-> 1]>>, 10) :
        address \in { <<"B", "a", "h", "n", "h", "o", "f", "s", "t", "r", "a", "s", "s", "e", " ", "1", "2", "a">>,
                       <<"1", "2", " ", "B", "a", "h", "n", "h", "o", "f", "s", "t", "r", "a", "s", "s", "e", " ", " ", "5">>,
                       <<"5">> } }

\* the waste-type argument varies
VocabularyInputs ==
    { HandleInput(address, waste_type, GeocodeFound, points,
                  <<[kind |-> "ok", results |-> <<EventFuture>>, total_count |-> 1]>>, 10) :
        address \in {Bahnhofstrasse, Rosenweg}, waste_type \in Vocabulary,
        points \in {[kind |-> "ok", results |-> <<>>], [kind |-> "ok", results |-> <<PointA>>]} }


StreetNames == {Bahnhofstrasse, <<" ", "b", "a", "h", "n", "h", "o", "f", " ">>}

DateWasteTypes == {Papier, <<"P", "A", "P", "I", "E", "R">>}

----------------------------------------------------------------------------
(* The calls                                                               *)

Idle ==
    /\ op = ""
    /\ args = <<>>
    /\ result = <<>>
    /\ requests = <<>>
    /\ frame = <<>>
    /\ session_state = <<>>

Init == Idle

\* the caller takes the result; the next call starts from scratch
Return ==
    /\ op # ""
    /\ frame = <<>>
    /\ op' = ""
    /\ args' = <<>>
    /\ result' = <<>>
    /\ requests' = <<>>
    /\ UNCHANGED <<frame, session_state>>

CallFindCollectionPoints ==
    /\ op = ""
    /\ \E user \in UserCoordinates, waste_type \in FindWasteTypes,
          all_points \in SeqsUpTo(WellFormedPoints \cup MalformedCoordinatePoints
                                  \cup MalformedWastePoints, MaxPoints) :
          /\ op' = "find_collection_points"
          /\ args' = [user_lat |-> user.lat, user_lon |-> user.lon,
                      waste_type |-> waste_type, all_points |-> all_points]
          /\ result' = find_collection_points(user.lat, user.lon, waste_type, all_points)
          /\ requests' = <<>>
          /\ UNCHANGED <<frame, session_state>>

CallGetNextCollectionDate ==
    /\ op = ""
    /\ \E street_name \in StreetNames, waste_type \in DateWasteTypes,
          all_dates \in SeqsUpTo(WellFormedEvents \cup MalformedEvents, MaxDates),
          current_hour \in Hours :
          /\ op' = "get_next_collection_date"
          /\ args' = [street_name |-> street_name, waste_type |-> waste_type,
                      all_dates |-> all_dates, today |-> Today,
                      current_hour |-> current_hour]
          /\ result' = get_next_collection_date(street_name, waste_type, all_dates,
                                                Today, current_hour)
          /\ requests' = <<>>
          /\ UNCHANGED <<frame, session_state>>

CallHandleWasteDisposal ==
    /\ op = ""
    /\ \E in \in OrchestrationInputs \cup GeocodingInputs \cup VocabularyInputs
                   \cup EmptyAddressInputs \cup StreetNameInputs :
          /\ op' = "handle_waste_disposal"
          /\ args' = in
          /\ result' = handle_waste_disposal(in.address, in.waste_type, in.geo, in.points,
                                             in.dates, in.today, in.current_hour)
          /\ requests' = result'.requests
          /\ UNCHANGED <<frame, session_state>>

NextFind == CallFindCollectionPoints \/ Return

SpecFind == Init /\ [][NextFind]_vars

NextDate == CallGetNextCollectionDate \/ Return

SpecDate == Init /\ [][NextDate]_vars

Next == CallHandleWasteDisposal \/ Return

Spec == Init /\ [][Next]_vars

----------------------------------------------------------------------------
(* Properties of handle_waste_disposal                                     *)

Handled == op = "handle_waste_disposal"

\* the geocoding service answered with a candidate that get_coordinates accepts
GeocodeSucceeded == Handled /\ args.geo = GeocodeFound

\* the message templates of the four branches, by the two flags
BranchTemplates(has_drop_off, has_pickup) ==
    CASE has_drop_off /\ has_pickup   -> {MessageTwoOptions}
      [] has_drop_off /\ ~has_pickup  -> {MessageDropOffOtherServices, MessageDropOffOnly}
      [] ~has_drop_off /\ has_pickup  -> {MessageCollectedFromHome}
      [] ~has_drop_off /\ ~has_pickup -> {MessageRecyclingCenter, MessageCheckSchedule,
                                          MessageContactOffice}

\* C1: every report returned after a successful geocode has
\* has_disposal_locations = (collection_points is non-empty) and
\* has_scheduled_collection = (next_collection_date is present), and its
\* message is one of the messages of the branch that these two flags select,
\* and of no other branch, so it is never empty.
C1_FlagsAndMessageBranch ==
    (GeocodeSucceeded /\ result.exc = "") =>
        LET r == result.ret
        IN  /\ r.has_disposal_locations = (r.collection_points # <<>>)
            /\ r.has_scheduled_collection = (r.next_collection_date # Null)
            /\ r.message.template \in
                   BranchTemplates(r.collection_points # <<>>, r.next_collection_date # Null)
            /\ \A d, s \in BOOLEAN :
                   r.message.template \in BranchTemplates(d, s) =>
                       d = r.has_disposal_locations /\ s = r.has_scheduled_collection
            /\ r.message.template # MessageEmpty

\* C1 witness: a report with a drop-off point and no pickup event
C1_Witness ==
    /\ GeocodeSucceeded
    /\ result.exc = ""
    /\ result.ret.collection_points # <<>>
    /\ result.ret.next_collection_date = Null
    /\ result.ret.message.template = MessageDropOffOnly

\* C2: for every address, waste type and content of the two datasets,
\* including records with null or wrongly typed fields, handle_waste_disposal
\* returns a report and no exception reaches the caller.
C2_NoExceptionEscapes ==
    Handled => result.exc = ""

\* C3: when geocoding fails, the report carries only the could-not-geocode
\* message: no collection point, no collection date, both flags false; only
\* the geocoding service was asked, and no exception propagates.
C3_GeocodeFailureReport ==
    (Handled /\ args.geo \in GeocodeFailures) =>
        /\ result.exc = ""
        /\ result.ret.message.template = MessageCouldNotGeocode
        /\ result.ret.collection_points = <<>>
        /\ result.ret.next_collection_date = Null
        /\ result.ret.has_disposal_locations = FALSE
        /\ result.ret.has_scheduled_collection = FALSE
        /\ requests = <<"nominatim">>

\* C3 witness: the service found candidates, none of them in St. Gallen
C3_Witness ==
    /\ Handled
    /\ args.geo.kind = "ok"
    /\ args.geo \in GeocodeFailures
    /\ args.geo.data # <<>>
    /\ result.notice = "warning: outside St. Gallen"
    /\ result.ret.message.template = MessageCouldNotGeocode

\* C9: for each of the 12 categories, the English name of the category (in
\* any letter case) or its upstream code as waste-type argument makes both
\* lookups run with the upstream code of the category; any other argument is
\* passed through unchanged.
C9_LookupsUseUpstreamCode ==
    (Handled /\ "lookup" \in DOMAIN result) =>
        /\ \A i \in 1..Len(translations) :
               (\/ args.waste_type = translations[i][1]
                \/ str_lower(args.waste_type) = str_lower(translations[i][2]))
               => result.lookup.waste_type = translations[i][1]
        /\ (\A i \in 1..Len(translations) :
               /\ args.waste_type # translations[i][1]
               /\ str_lower(args.waste_type) # str_lower(translations[i][2]))
           => result.lookup.waste_type = args.waste_type

\* C10: in the drop-off-only branch the message states the number of
\* drop-off points and that there is no home collection, and the collection
\* services it lists for the street never include the requested waste type.
C10_DropOffOnlyListsOtherTypes ==
    (/\ Handled
     /\ result.exc = ""
     /\ result.ret.has_disposal_locations
     /\ ~result.ret.has_scheduled_collection) =>
        LET m == result.ret.message
        IN  /\ m.template \in {MessageDropOffOtherServices, MessageDropOffOnly}
            /\ m.count = Len(result.ret.collection_points)
            /\ m.template = MessageDropOffOtherServices =>
                   translate_waste_type(result.lookup.waste_type) \notin m.services

\* the waste-type argument names one of the four categories collected from
\* homes: paper, cardboard, household waste, green waste
TypicallyCollected(waste_type) ==
    \E i \in 1..Len(translations) :
        /\ translations[i][1] \in {Papier, Karton, Kehricht, Gruengut}
        /\ \/ waste_type = translations[i][1]
           \/ str_lower(waste_type) = str_lower(translations[i][2])

\* the waste types of the records of the fetched dataset that list the street
CollectedOnStreet ==
    available_waste_types(fetch_collection_dates(args.dates, 0, <<>>), result.lookup.street_name)

NeitherBranch ==
    /\ GeocodeSucceeded
    /\ result.exc = ""
    /\ ~result.ret.has_disposal_locations
    /\ ~result.ret.has_scheduled_collection

\* C11: in the neither branch the message is chosen by priority: if any waste
\* type is collected on the street, these types are listed and a recycling
\* center is suggested; otherwise, if the requested type is paper, cardboard,
\* household waste or green waste, checking the official schedule is
\* suggested; otherwise the generic contact message is given.
C11_NeitherBranchPriority ==
    NeitherBranch =>
        LET m == result.ret.message
        IN  IF CollectedOnStreet # {}
            THEN /\ m.template = MessageRecyclingCenter
                 /\ m.services = {translate_waste_type(wt.s) : wt \in CollectedOnStreet}
            ELSE IF TypicallyCollected(args.waste_type)
            THEN m.template = MessageCheckSchedule
            ELSE m.template = MessageContactOffice

\* C11 witness: nothing is collected on the street and the requested type is
\* cardboard, so checking the schedule is suggested
C11_Witness ==
    /\ NeitherBranch
    /\ CollectedOnStreet = {}
    /\ args.waste_type = Cardboard
    /\ result.ret.message.template = MessageCheckSchedule

\* the address without its purely numeric tokens, the others joined by single
\* spaces
WithoutNumericTokens(address) ==
    str_join(SelectSeq(str_split(address), LAMBDA part : ~AllDigits(part)))

\* C21: the street name that handle_waste_disposal passes to the date
\* resolver is the address without its purely numeric whitespace-separated
\* tokens, the remaining tokens joined in order by single spaces.
C21_StreetNameDropsNumericTokens ==
    (Handled /\ GeocodeSucceeded /\ result.exc = "") =>
        result.lookup.street_name = WithoutNumericTokens(args.address)

\* C12 (first half): handle_waste_disposal called with an empty address
\* issues no request to the geocoding service or the datasets.
C12_EmptyAddressIssuesNoRequest ==
    (Handled /\ args.address = <<>>) => requests = <<>>

----------------------------------------------------------------------------
(* Properties of find_collection_points                                    *)

Found == op = "find_collection_points"

PointsAmong(S) == \A i \in 1..Len(args.all_points) : args.all_points[i] \in S

\* the point lists the waste type, ignoring letter case
Accepts(point, waste_type) ==
    \E i \in 1..Len(point["abfallarten"].l) :
        str_lower(point["abfallarten"].l[i].s) = str_lower(waste_type)

\* C4: a point with missing or malformed coordinates (absent key,
\* non-numeric string, null latitude) is skipped and never aborts the query:
\* the result is the one for the list without these points.
C4_MalformedCoordinatesSkipped ==
    (Found /\ PointsAmong(WellFormedPoints \cup MalformedCoordinatePoints)) =>
        /\ result.exc = ""
        /\ result = find_collection_points(
                        args.user_lat, args.user_lon, args.waste_type,
                        SelectSeq(args.all_points, LAMBDA point : point \in WellFormedPoints))

\* C5: for well-formed points the result holds exactly the points that accept
\* the waste type ignoring letter case, each once, in ascending order of
\* distance, points at the same distance in the order of the dataset; it is
\* the empty list, and no error, when no point accepts the waste type.
C5_MatchingPointsByDistance ==
    (Found /\ PointsAmong(WellFormedPoints)) =>
        LET pts == args.all_points
            M == {i \in 1..Len(pts) : Accepts(pts[i], args.waste_type)}
            dist(i) == haversine_distance(args.user_lat, args.user_lon,
                                          float(pts[i]["geo_point_2d"].d["lat"]).val,
                                          float(pts[i]["geo_point_2d"].d["lon"]).val)
            before(j, i) == dist(j) < dist(i) \/ (dist(j) = dist(i) /\ j < i)
            place(i) == 1 + Cardinality({j \in M : before(j, i)})
        IN  /\ result.exc = ""
            /\ Len(result.val) = Cardinality(M)
            /\ \A i \in M : /\ result.val[place(i)].name = pts[i]["standort"]
                            /\ result.val[place(i)].distance = dist(i)
            /\ \A k \in 1..(Len(result.val) - 1) :
                   result.val[k].distance <= result.val[k + 1].distance

\* C5 witness: three matching points, the first two at the same distance and
\* in the order of the dataset, which is not the order of their names
C5_Witness ==
    /\ Found
    /\ PointsAmong(WellFormedPoints)
    /\ result.exc = ""
    /\ Len(result.val) = 3
    /\ result.val[1].distance = result.val[2].distance
    /\ result.val[2].distance < result.val[3].distance
    /\ result.val[1].name = StrV(<<"B">>)
    /\ result.val[2].name = StrV(<<"C">>)
    /\ args.all_points[1]["standort"] = StrV(<<"E">>)

----------------------------------------------------------------------------
(* Properties of get_next_collection_date                                  *)

Resolved == op = "get_next_collection_date"

EventsAmong(S) == \A i \in 1..Len(args.all_dates) : args.all_dates[i] \in S

\* the event is for the waste type and lists a street that matches
Matching(item) ==
    /\ str_lower(item["sammlung"].s) = str_lower(args.waste_type)
    /\ LET streets == IF item["strasse"].t = "list" THEN item["strasse"].l
                      ELSE <<item["strasse"]>>
       IN  \E i \in 1..Len(streets) : street_matches(str_strip(str_lower(args.street_name)),
                                                     streets[i].s)

DateOf(item) == strptime(item["datum"])

TimeOf(item) == dict_get(item, "zeit", StrV(<<>>)).s

\* the start hour that the time text yields, if it yields one
StartHourParsed(item) == time_match(TimeOf(item)).matched

StartHour(item) == int_of(time_match(TimeOf(item)).group)

Eligible(item) ==
    /\ DateOf(item).exc = ""
    /\ \/ key_lt(args.today, DateOf(item).val)
       \/ /\ DateOf(item).val = args.today
          /\ StartHourParsed(item) => StartHour(item) > args.current_hour

\* C6: the result is an eligible matching event whose date is the minimum
\* over all eligible matching events, the first of them in the input list;
\* it is never dated before today; it is None exactly when no matching event
\* is eligible.
C6_EarliestEligibleEvent ==
    (Resolved /\ EventsAmong(WellFormedEvents)) =>
        LET evs == args.all_dates
            E == {i \in 1..Len(evs) : Matching(evs[i]) /\ Eligible(evs[i])}
            d(i) == DateOf(evs[i]).val
        IN  /\ result.exc = ""
            /\ (result.val = Null) <=> (E = {})
            /\ E # {} =>
                 LET first == CHOOSE i \in E :
                                 \A j \in E : key_lt(d(i), d(j)) \/ (d(i) = d(j) /\ i <= j)
                 IN  /\ result.val.date = d(first)
                     /\ result.val.description = evs[first]["titel"]
                     /\ ~key_lt(result.val.date, args.today)

\* C6 witness: of two eligible matching events the second one in the list
\* has the earlier date and is the one returned
C6_Witness ==
    /\ Resolved
    /\ EventsAmong(WellFormedEvents)
    /\ Len(args.all_dates) = 2
    /\ Matching(args.all_dates[1]) /\ Eligible(args.all_dates[1])
    /\ Matching(args.all_dates[2]) /\ Eligible(args.all_dates[2])
    /\ key_lt(DateOf(args.all_dates[2]).val, DateOf(args.all_dates[1]).val)
    /\ result.val # Null
    /\ result.val.description = args.all_dates[2]["titel"]

\* C7: a matching event dated today with a parseable start hour h is eligible
\* if and only if h is greater than the current hour; one dated today
\* without a parseable start hour is always eligible; one dated after today
\* is always eligible.
C7_SameDayCutoff ==
    (Resolved /\ EventsAmong(WellFormedEvents)) =>
        \A i \in 1..Len(args.all_dates) :
            LET item == args.all_dates[i]
                today == DateOf(item).exc = "" /\ DateOf(item).val = args.today
                future == DateOf(item).exc = "" /\ key_lt(args.today, DateOf(item).val)
            IN  Matching(item) =>
                /\ (today /\ StartHourParsed(item) /\ StartHour(item) > args.current_hour)
                       => (result.val # Null /\ result.val.date = args.today)
                /\ (today /\ StartHourParsed(item) /\ StartHour(item) <= args.current_hour)
                       => (result.val = Null \/ result.val.description # item["titel"])
                /\ (today /\ ~StartHourParsed(item))
                       => (result.val # Null /\ result.val.date = args.today)
                /\ future => result.val # Null

\* C7 witness: the only event starts today at the current hour and is skipped
C7_Witness ==
    /\ Resolved
    /\ Len(args.all_dates) = 1
    /\ EventsAmong(WellFormedEvents)
    /\ Matching(args.all_dates[1])
    /\ DateOf(args.all_dates[1]).exc = ""
    /\ DateOf(args.all_dates[1]).val = args.today
    /\ StartHourParsed(args.all_dates[1])
    /\ StartHour(args.all_dates[1]) = args.current_hour
    /\ result.val = Null

\* the call has one event, which matches, with this date and time text
OnlyEvent(datum, zeit) ==
    /\ Resolved
    /\ args.today = <<2025, 6, 1>>
    /\ Len(args.all_dates) = 1
    /\ args.all_dates[1] \in WellFormedEvents
    /\ Matching(args.all_dates[1])
    /\ args.all_dates[1]["datum"] = StrV(datum)
    /\ "zeit" \in DOMAIN args.all_dates[1]
    /\ args.all_dates[1]["zeit"] = StrV(zeit)

----------------------------------------------------------------------------
(* The geocoder on its own                                                 *)

MaxCandidates == 2

StGallenName == <<"S", "t", ".", " ", "G", "a", "l", "l", "e", "n">>
GossauName == <<"G", "o", "s", "s", "a", "u">>

\* a candidate whose display name lacks the token while its address names
\* the city
CandidateInCity(lat, lon, display_name, city) ==
    [lat |-> lat, lon |-> lon, display_name |-> StrV(display_name),
     address |-> Dict([city |-> StrV(city)])]

\* candidates whose latitude and longitude are decimal texts
NumericCandidates ==
    { Candidate(StrV(<<"4", "7", ".", "4", "2">>), StrV(<<"9", ".", "3", "8">>), StGallenName),
      CandidateInCity(StrV(<<"4", "7", ".", "4", "0">>), StrV(<<"9", ".", "4", "0">>), <<"R", "o", "s", "e", "n", "w", "e", "g", " ", "3">>, <<"S", "a", "n", "k", "t", " ", "G", "A", "L", "L", "E", "N">>),
      Candidate(StrV(<<"4", "7", ".", "4", "8">>), StrV(<<"9", ".", "4", "5">>), StGallenName),
      Candidate(StrV(<<"4", "7", ".", "4", "9">>), StrV(<<"9", ".", "3", "8">>), StGallenName),
      Candidate(StrV(<<"4", "7", ".", "4", "2">>), StrV(<<"9", ".", "3", "8">>), GossauName),
      Candidate(StrV(<<"4", "7", ".", "3", "7">>), StrV(<<"8", ".", "5", "4">>), <<"Z", "ü", "r", "i", "c", "h">>) }

\* candidates whose latitude is absent, not numeric or null
MalformedCandidates ==
    { [lon |-> StrV(<<"9", ".", "3", "8">>), display_name |-> StrV(StGallenName),
       address |-> Dict(<<>>)],
      Candidate(StrV(<<"n", "/", "a">>), StrV(<<"9", ".", "3", "8">>), StGallenName),
      Candidate(Null, StrV(<<"9", ".", "3", "8">>), StGallenName) }

GeocodeResponses ==
    {[kind |-> "RequestException"]}
    \cup {[kind |-> "ok", data |-> l] :
             l \in SeqsUpTo(NumericCandidates \cup MalformedCandidates, MaxCandidates)}

CallGetCoordinates ==
    /\ op = ""
    /\ \E address \in {Bahnhofstrasse, <<>>}, response \in GeocodeResponses :
          /\ op' = "get_coordinates"
          /\ args' = [address |-> address, response |-> response]
          /\ result' = get_coordinates(address, response)
          /\ requests' = <<"nominatim">>
          /\ UNCHANGED <<frame, session_state>>

NextGeo == CallGetCoordinates \/ Return

SpecGeo == Init /\ [][NextGeo]_vars

----------------------------------------------------------------------------
(* Properties of get_coordinates                                           *)

Geocoded == op = "get_coordinates"

\* the coordinate of a candidate as a number, when it has one
CoordinateOf(candidate, key) ==
    IF key \in DOMAIN candidate THEN float(candidate[key]) ELSE Raise("KeyError")

\* latitude and longitude lie inside the bounding box of St. Gallen
InsideBounds(candidate) ==
    /\ CoordinateOf(candidate, "lat").exc = ""
    /\ CoordinateOf(candidate, "lon").exc = ""
    /\ ST_GALLEN_BOUNDS.min_lat <= CoordinateOf(candidate, "lat").val
    /\ CoordinateOf(candidate, "lat").val <= ST_GALLEN_BOUNDS.max_lat
    /\ ST_GALLEN_BOUNDS.min_lon <= CoordinateOf(candidate, "lon").val
    /\ CoordinateOf(candidate, "lon").val <= ST_GALLEN_BOUNDS.max_lon

\* the display name or some address value contains "gallen" in any case
MentionsGallen(candidate) ==
    \/ /\ "display_name" \in DOMAIN candidate
       /\ candidate["display_name"].t = "str"
       /\ str_in(gallen, str_lower(candidate["display_name"].s))
    \/ /\ "address" \in DOMAIN candidate
       /\ candidate["address"].t = "dict"
       /\ st_gallen_mentioned(candidate["address"].d)

PassingCandidates(data) ==
    {i \in DOMAIN data : InsideBounds(data[i]) /\ MentionsGallen(data[i])}

FirstPassing(data) ==
    CHOOSE i \in PassingCandidates(data) : \A j \in PassingCandidates(data) : i <= j

\* C13: get_coordinates returns the coordinates of the first candidate that
\* lies inside the bounding box and mentions "gallen" in its display name or
\* an address value; a returned coordinate is always inside the box, and no
\* coordinate is returned when no candidate passes both checks.
C13_FirstPassingCandidate ==
    (Geocoded /\ args.response.kind = "ok") =>
        /\ PassingCandidates(args.response.data) = {} => result.val = Null
        /\ PassingCandidates(args.response.data) # {} =>
             result.val =
                 [lat |-> CoordinateOf(args.response.data[FirstPassing(args.response.data)],
                                       "lat").val,
                  lon |-> CoordinateOf(args.response.data[FirstPassing(args.response.data)],
                                       "lon").val]
        /\ result.val # Null =>
             /\ ST_GALLEN_BOUNDS.min_lat <= result.val.lat
             /\ result.val.lat <= ST_GALLEN_BOUNDS.max_lat
             /\ ST_GALLEN_BOUNDS.min_lon <= result.val.lon
             /\ result.val.lon <= ST_GALLEN_BOUNDS.max_lon

\* the situation in which a geocoding attempt ends
Situation(response) ==
    IF response.kind # "ok" THEN "transport failure"
    ELSE IF response.data = <<>> THEN "no candidate"
    ELSE IF PassingCandidates(response.data) = {} THEN "outside St. Gallen"
    ELSE "found"

\* C14: the three failures of a geocoding attempt (no candidate, candidates
\* outside St. Gallen, transport failure) give the caller of get_coordinates
\* pairwise different results.
C14_FailuresDistinguishable ==
    Geocoded =>
        \A other \in GeocodeResponses :
            (/\ Situation(args.response) # "found"
             /\ Situation(other) # "found"
             /\ Situation(other) # Situation(args.response)) =>
                get_coordinates(args.address, other).val # result.val

\* the latitude or longitude of the candidate is absent, not numeric or null
MalformedCoordinates(candidate) ==
    \/ CoordinateOf(candidate, "lat").exc # ""
    \/ CoordinateOf(candidate, "lon").exc # ""

\* C22: a candidate whose latitude or longitude is absent, not numeric or
\* null is skipped; a valid candidate of St. Gallen after it is accepted.
C22_MalformedCandidateSkipped ==
    (/\ Geocoded
     /\ args.response.kind = "ok"
     /\ Len(args.response.data) >= 2
     /\ MalformedCoordinates(args.response.data[1])
     /\ InsideBounds(args.response.data[2])
     /\ MentionsGallen(args.response.data[2])) =>
        result.val = [lat |-> CoordinateOf(args.response.data[2], "lat").val,
                      lon |-> CoordinateOf(args.response.data[2], "lon").val]

----------------------------------------------------------------------------
(* The display vocabulary of app.py                                        *)

\* The display labels.  A character outside Latin-1 is written as its code
\* point, one element of the sequence as it is one character of the str.
UiHouseholdWaste == <<"H", "o", "u", "s", "e", "h", "o", "l", "d", " ", "w", "a", "s", "t", "e", " ", "U+1F5D1">>
UiPaper == <<"P", "a", "p", "e", "r", " ", "U+1F4C4">>
UiCardboard == <<"C", "a", "r", "d", "b", "o", "a", "r", "d", " ", "U+1F4E6">>
UiGlass == <<"G", "l", "a", "s", "s", " ", "U+1F37E">>
UiGreenWaste == <<"G", "r", "e", "e", "n", " ", "w", "a", "s", "t", "e", " ", "U+1F33F">>
UiCans == <<"C", "a", "n", "s", " ", "U+1F96B">>
UiAluminium == <<"A", "l", "u", "m", "i", "n", "i", "u", "m", " ", "U+1F9F4">>
UiMetal == <<"M", "e", "t", "a", "l", " ", "U+1FA99">>
UiTextiles == <<"T", "e", "x", "t", "i", "l", "e", "s", " ", "U+1F455">>
UiOil == <<"O", "i", "l", " ", "U+1F6E2">>
UiHazardousWaste == <<"H", "a", "z", "a", "r", "d", "o", "u", "s", " ", "w", "a", "s", "t", "e", " ", "U+26A0">>
UiFoamPackaging == <<"F", "o", "a", "m", " ", "p", "a", "c", "k", "a", "g", "i", "n", "g", " ", "U+2601">>
UiUnknown == <<"U", "n", "k", "n", "o", "w", "n", " ", "U+1F6AB">>

\* the dict keywords of rule_based_prediction, as <<category, word_list>>
\* pairs in the order of the dict
keywords ==
    << <<UiHouseholdWaste,
          <<<<"t", "r", "a", "s", "h">>,
            <<"g", "a", "r", "b", "a", "g", "e">>,
            <<"w", "a", "s", "t", "e">>,
            <<"d", "i", "r", "t", "y">>,
            <<"l", "e", "f", "t", "o", "v", "e", "r">>,
            <<"b", "r", "o", "k", "e", "n">>,
            <<"o", "r", "d", "i", "n", "a", "r", "y">>>> >>,
       <<UiPaper,
          <<<<"p", "a", "p", "e", "r">>,
            <<"n", "e", "w", "s", "p", "a", "p", "e", "r">>,
            <<"m", "a", "g", "a", "z", "i", "n", "e">>,
            <<"b", "o", "o", "k">>,
            <<"p", "r", "i", "n", "t", "e", "r">>,
            <<"e", "n", "v", "e", "l", "o", "p", "e">>,
            <<"d", "o", "c", "u", "m", "e", "n", "t">>>> >>,
       <<UiCardboard,
          <<<<"c", "a", "r", "d", "b", "o", "a", "r", "d">>,
            <<"c", "a", "r", "t", "o", "n">>,
            <<"b", "o", "x">>,
            <<"p", "a", "c", "k", "a", "g", "i", "n", "g">>,
            <<"t", "h", "i", "c", "k", " ", "p", "a", "p", "e", "r">>>> >>,
       <<UiGlass,
          <<<<"g", "l", "a", "s", "s">>,
            <<"b", "o", "t", "t", "l", "e">>,
            <<"j", "a", "r">>,
            <<"c", "o", "n", "t", "a", "i", "n", "e", "r">>,
            <<"m", "i", "r", "r", "o", "r">>,
            <<"w", "i", "n", "d", "o", "w">>>> >>,
       <<UiGreenWaste,
          <<<<"g", "r", "e", "e", "n">>,
            <<"g", "r", "a", "s", "s">>,
            <<"l", "e", "a", "f">>,
            <<"l", "e", "a", "v", "e", "s">>,
            <<"p", "l", "a", "n", "t">>,
            <<"g", "a", "r", "d", "e", "n">>,
            <<"f", "l", "o", "w", "e", "r">>,
            <<"v", "e", "g", "e", "t", "a", "b", "l", "e">>,
            <<"f", "r", "u", "i", "t">>>> >>,
       <<UiCans,
          <<<<"c", "a", "n">>,
            <<"t", "i", "n">>,
            <<"a", "l", "u", "m", "i", "n", "u", "m", " ", "c", "a", "n">>,
            <<"s", "o", "d", "a">>,
            <<"d", "r", "i", "n", "k", " ", "c", "a", "n">>,
            <<"f", "o", "o", "d", " ", "c", "a", "n">>>> >>,
       <<UiAluminium,
          <<<<"a", "l", "u", "m", "i", "n", "u", "m">>,
            <<"f", "o", "i", "l">>,
            <<"t", "r", "a", "y">>,
            <<"c", "o", "n", "t", "a", "i", "n", "e", "r">>,
            <<"l", "i", "d">>,
            <<"w", "r", "a", "p">>,
            <<"p", "a", "c", "k", "a", "g", "i", "n", "g">>>> >>,
       <<UiMetal,
          <<<<"m", "e", "t", "a", "l">>,
            <<"i", "r", "o", "n">>,
            <<"s", "t", "e", "e", "l">>,
            <<"s", "c", "r", "a", "p">>,
            <<"n", "a", "i", "l", "s">>,
            <<"s", "c", "r", "e", "w", "s">>,
            <<"w", "i", "r", "e">>>> >>,
       <<UiTextiles,
          <<<<"t", "e", "x", "t", "i", "l", "e">>,
            <<"c", "l", "o", "t", "h", "e", "s">>,
            <<"f", "a", "b", "r", "i", "c">>,
            <<"s", "h", "i", "r", "t">>,
            <<"p", "a", "n", "t", "s">>,
            <<"c", "l", "o", "t", "h">>,
            <<"c", "o", "t", "t", "o", "n">>,
            <<"w", "o", "o", "l">>>> >>,
       <<UiOil,
          <<<<"o", "i", "l">>,
            <<"c", "o", "o", "k", "i", "n", "g", " ", "o", "i", "l">>,
            <<"m", "o", "t", "o", "r", " ", "o", "i", "l">>,
            <<"l", "u", "b", "r", "i", "c", "a", "n", "t">>,
            <<"g", "r", "e", "a", "s", "e">>>> >>,
       <<UiHazardousWaste,
          <<<<"b", "a", "t", "t", "e", "r", "y">>,
            <<"c", "h", "e", "m", "i", "c", "a", "l">>,
            <<"t", "o", "x", "i", "c">>,
            <<"m", "e", "d", "i", "c", "i", "n", "e">>,
            <<"p", "a", "i", "n", "t">>,
            <<"s", "o", "l", "v", "e", "n", "t">>,
            <<"c", "l", "e", "a", "n", "e", "r">>>> >>,
       <<UiFoamPackaging,
          <<<<"f", "o", "a", "m">>,
            <<"s", "t", "y", "r", "o", "f", "o", "a", "m">>,
            <<"p", "o", "l", "y", "s", "t", "y", "r", "e", "n", "e">>,
            <<"p", "a", "c", "k", "i", "n", "g">>,
            <<"c", "u", "s", "h", "i", "o", "n">>,
            <<"i", "n", "s", "u", "l", "a", "t", "i", "o", "n">>>> >> >>

\* the dict category_mapping of predict_from_text
category_mapping ==
    << <<<<"H", "o", "u", "s", "e", "h", "o", "l", "d">>, UiHouseholdWaste>>,
       <<<<"P", "a", "p", "e", "r">>, UiPaper>>,
       <<<<"C", "a", "r", "d", "b", "o", "a", "r", "d">>, UiCardboard>>,
       <<<<"G", "l", "a", "s", "s">>, UiGlass>>,
       <<<<"G", "r", "e", "e", "n">>, UiGreenWaste>>,
       <<<<"C", "a", "n", "s">>, UiCans>>,
       <<<<"A", "l", "u", "m", "i", "n", "i", "u", "m">>, UiAluminium>>,
       <<<<"M", "e", "t", "a", "l">>, UiMetal>>,
       <<<<"T", "e", "x", "t", "i", "l", "e", "s">>, UiTextiles>>,
       <<<<"O", "i", "l">>, UiOil>>,
       <<<<"H", "a", "z", "a", "r", "d", "o", "u", "s">>, UiHazardousWaste>>,
       <<<<"F", "o", "a", "m", " ", "p", "a", "c", "k", "a", "g", "i", "n", "g">>, UiFoamPackaging>> >>

\* the same dict without the key of the foam packaging label
ui_to_api_mapping_without_foam ==
    << <<UiHouseholdWaste, Kehricht>>,
       <<UiPaper, Papier>>,
       <<UiCardboard, Karton>>,
       <<UiGlass, Glas>>,
       <<UiGreenWaste, Gruengut>>,
       <<UiCans, Dosen>>,
       <<UiAluminium, Aluminium>>,
       <<UiMetal, Altmetall>>,
       <<UiTextiles, Alttextilien>>,
       <<UiOil, Altoel>>,
       <<UiHazardousWaste, Sonderabfall>> >>

\* the dict mapping of convert_waste_type_to_api
ui_to_api_mapping ==
    << <<UiHouseholdWaste, Kehricht>>,
       <<UiPaper, Papier>>,
       <<UiCardboard, Karton>>,
       <<UiGlass, Glas>>,
       <<UiGreenWaste, Gruengut>>,
       <<UiCans, Dosen>>,
       <<UiAluminium, Aluminium>>,
       <<UiMetal, Altmetall>>,
       <<UiTextiles, Alttextilien>>,
       <<UiOil, Altoel>>,
       <<UiHazardousWaste, Sonderabfall>>,
       <<UiFoamPackaging, Styropor>> >>

\* the dict mapping of convert_api_to_ui_waste_type
api_to_ui_mapping ==
    << <<Kehricht, UiHouseholdWaste>>,
       <<Papier, UiPaper>>,
       <<Karton, UiCardboard>>,
       <<Glas, UiGlass>>,
       <<Gruengut, UiGreenWaste>>,
       <<Dosen, UiCans>>,
       <<Aluminium, UiAluminium>>,
       <<Altmetall, UiMetal>>,
       <<Alttextilien, UiTextiles>>,
       <<Altoel, UiOil>>,
       <<Sonderabfall, UiHazardousWaste>>,
       <<Styropor, UiFoamPackaging>> >>

IMAGE_CLASS_NAMES ==
    << UiHouseholdWaste, UiPaper, UiCardboard, UiGlass, UiGreenWaste, UiCans, UiAluminium, UiFoamPackaging, UiMetal, UiTextiles, UiOil, UiHazardousWaste >>

\* the same dict with "Aluminum" for the key of the aluminium label
ui_to_api_mapping_aluminum ==
    [i \in 1..Len(ui_to_api_mapping) |->
        IF ui_to_api_mapping[i][1] = UiAluminium THEN <<UiAluminium, Aluminum>>
        ELSE ui_to_api_mapping[i]]

convert_waste_type_to_api_aluminum(ui_waste_type) ==
    mapping_get(ui_to_api_mapping_aluminum, ui_waste_type, ui_waste_type)

convert_waste_type_to_api(ui_waste_type) ==
    mapping_get(ui_to_api_mapping, ui_waste_type, ui_waste_type)

convert_api_to_ui_waste_type(api_waste_type) ==
    mapping_get(api_to_ui_mapping, api_waste_type, api_waste_type)

\* the arguments of the three conversions: the upstream codes, the display
\* labels, the English names, and texts outside every table
ConversionInputs ==
    {get_available_waste_types[i] : i \in 1..Len(get_available_waste_types)}
    \cup {IMAGE_CLASS_NAMES[i] : i \in 1..Len(IMAGE_CLASS_NAMES)}
    \cup {translations[i][2] : i \in 1..Len(translations)}
    \cup { UiUnknown, <<"P", "l", "a", "s", "t", "i", "k">>, <<"p", "a", "p", "i", "e", "r">>, <<"P", "A", "P", "I", "E", "R">>, <<>> }

CallConvertWasteTypeToApi ==
    /\ op = ""
    /\ \E ui_waste_type \in ConversionInputs :
          /\ op' = "convert_waste_type_to_api"
          /\ args' = [waste_type |-> ui_waste_type]
          /\ result' = Ok(convert_waste_type_to_api(ui_waste_type))
          /\ requests' = <<>>
          /\ UNCHANGED <<frame, session_state>>

CallConvertApiToUiWasteType ==
    /\ op = ""
    /\ \E api_waste_type \in ConversionInputs :
          /\ op' = "convert_api_to_ui_waste_type"
          /\ args' = [waste_type |-> api_waste_type]
          /\ result' = Ok(convert_api_to_ui_waste_type(api_waste_type))
          /\ requests' = <<>>
          /\ UNCHANGED <<frame, session_state>>

CallTranslateWasteType ==
    /\ op = ""
    /\ \E waste_type \in ConversionInputs :
          /\ op' = "translate_waste_type"
          /\ args' = [waste_type |-> waste_type]
          /\ result' = Ok(translate_waste_type(waste_type))
          /\ requests' = <<>>
          /\ UNCHANGED <<frame, session_state>>

NextVocab ==
    \/ CallConvertWasteTypeToApi
    \/ CallConvertApiToUiWasteType
    \/ CallTranslateWasteType
    \/ Return

SpecVocab == Init /\ [][NextVocab]_vars

----------------------------------------------------------------------------
(* Properties of the vocabulary conversions                                *)

\* the closed vocabulary of twelve upstream codes
UpstreamCodes == {get_available_waste_types[i] : i \in 1..Len(get_available_waste_types)}

\* the twelve display labels
DisplayLabels == {IMAGE_CLASS_NAMES[i] : i \in 1..Len(IMAGE_CLASS_NAMES)}

\* C19: for every upstream code x of the twelve,
\* convert_waste_type_to_api(convert_api_to_ui_waste_type(x)) = x; the two
\* display mappings give every code a display text, different codes
\* different texts; an input outside the vocabulary of a mapping function is
\* returned unchanged.
C19_VocabularyRoundTrip ==
    /\ (op = "convert_api_to_ui_waste_type" /\ args.waste_type \in UpstreamCodes) =>
          /\ convert_waste_type_to_api(result.val) = args.waste_type
          /\ result.val \in DisplayLabels
          /\ \A other \in UpstreamCodes \ {args.waste_type} :
                 convert_api_to_ui_waste_type(other) # result.val
    /\ (op = "translate_waste_type" /\ args.waste_type \in UpstreamCodes) =>
          /\ result.val \in {translations[i][2] : i \in 1..Len(translations)}
          /\ \A other \in UpstreamCodes \ {args.waste_type} :
                 translate_waste_type(other) # result.val
    /\ (op \in {"convert_api_to_ui_waste_type", "translate_waste_type"}
        /\ args.waste_type \notin UpstreamCodes) => result.val = args.waste_type
    /\ (op = "convert_waste_type_to_api" /\ args.waste_type \notin DisplayLabels) =>
          result.val = args.waste_type
    /\ Cardinality(UpstreamCodes) = 12

\* C19 witness: the code "Aluminium" has been converted to its display label,
\* which converts back to the code
C19_Witness ==
    /\ op = "convert_api_to_ui_waste_type"
    /\ args.waste_type = Aluminium
    /\ result.val = UiAluminium
    /\ convert_waste_type_to_api(result.val) = Aluminium

----------------------------------------------------------------------------
(* Classification: the text pipeline of app.py                             *)

\* The float num / den as a whole number of 1/2520: every quotient the code
\* forms has a denominator from 5 to 10, which divides 2520.
Confidence(num, den) == (num * 2520) \div den

\* max(scores, key=scores.get): the first category with the largest score
best_category(scores) ==
    CHOOSE i \in 1..Len(scores) :
        /\ \A j \in 1..Len(scores) : scores[j] <= scores[i]
        /\ \A j \in 1..(i - 1) : scores[j] < scores[i]

\* the same with the confidence score / len(keywords[best_category])
rule_based_result_uncapped(scores) ==
    IF \E i \in 1..Len(scores) : scores[i] # 0
    THEN <<StrV(keywords[best_category(scores)][1]),
           Confidence(scores[best_category(scores)],
                      Len(keywords[best_category(scores)][2]))>>
    ELSE <<StrV(UiHouseholdWaste), Confidence(3, 10)>>

\* the return statements of rule_based_prediction, given the scores
rule_based_result(scores) ==
    IF \E i \in 1..Len(scores) : scores[i] # 0
    THEN <<StrV(keywords[best_category(scores)][1]),
           IF Confidence(7, 10) <= Confidence(scores[best_category(scores)],
                                              Len(keywords[best_category(scores)][2]))
           THEN Confidence(7, 10)
           ELSE Confidence(scores[best_category(scores)],
                           Len(keywords[best_category(scores)][2]))>>
    ELSE <<StrV(UiHouseholdWaste), Confidence(3, 10)>>

\* scores[category] is the number of words of its list that occur in the
\* lower-cased description
rule_based_prediction(description) ==
    rule_based_result([i \in 1..Len(keywords) |->
                          Cardinality({k \in 1..Len(keywords[i][2]) :
                                          str_in(keywords[i][2][k], str_lower(description))})])

\* The try block of predict_from_text up to the category: the confidence and
\* the raw category, or the exception raised.  A vectorizer is
\* [t |-> "obj", transform |-> "ok" or the exception it raises]; a model is
\* [t |-> "obj", predict |-> <the class index or an exception>,
\*  predict_proba |-> <the probabilities or an exception>]; an encoder is
\* [t |-> "obj", classes |-> <the labels>], inverse_transform raising
\* ValueError for an index without a label.
inference(model, vectorizer, encoder) ==
    IF vectorizer.transform # "ok" THEN Raise(vectorizer.transform)
    ELSE IF model.predict.exc # "" THEN model.predict
    ELSE IF model.predict_proba.exc # "" THEN model.predict_proba
    ELSE IF model.predict.val + 1 \notin DOMAIN model.predict_proba.val
    THEN Raise("IndexError")
    ELSE IF model.predict.val + 1 \notin DOMAIN encoder.classes
    THEN Raise("ValueError")
    ELSE Ok([confidence |-> model.predict_proba.val[model.predict.val + 1],
             category |-> encoder.classes[model.predict.val + 1]])

\* the same with the confidence of an overridden prediction set to 0.0
text_result_zeroed(description, inferred) ==
    IF inferred.exc # "" THEN Ok(rule_based_prediction(str_lower(description)))
    ELSE IF inferred.val.confidence < Confidence(3, 10) THEN Ok(<<StrV(UiUnknown), 0>>)
    ELSE Ok(<<StrV(mapping_get(category_mapping, inferred.val.category,
                               inferred.val.category)),
              inferred.val.confidence>>)

\* the rest of the try block and its except clause
text_result(description, inferred) ==
    IF inferred.exc # "" THEN Ok(rule_based_prediction(str_lower(description)))
    ELSE IF inferred.val.confidence < Confidence(3, 10)
    THEN Ok(<<StrV(UiUnknown), inferred.val.confidence>>)
    ELSE Ok(<<StrV(mapping_get(category_mapping, inferred.val.category,
                               inferred.val.category)),
              inferred.val.confidence>>)

\* the same without the except clause
predict_from_text_raising(description, model, vectorizer, encoder) ==
    IF ~Truthy(description) THEN Ok(<<Null, 0>>)
    ELSE IF model.t # "null" /\ vectorizer.t # "null" /\ encoder.t # "null"
    THEN IF inference(model, vectorizer, encoder).exc # ""
         THEN inference(model, vectorizer, encoder)
         ELSE text_result(description.s, inference(model, vectorizer, encoder))
    ELSE Ok(rule_based_prediction(description.s))

\* predict_from_text; description is a str or None
predict_from_text(description, model, vectorizer, encoder) ==
    IF ~Truthy(description) THEN Ok(<<Null, 0>>)
    ELSE IF model.t # "null" /\ vectorizer.t # "null" /\ encoder.t # "null"
    THEN text_result(description.s, inference(model, vectorizer, encoder))
    ELSE Ok(rule_based_prediction(description.s))

----------------------------------------------------------------------------
(* Classification: the image pipeline of app.py                            *)

\* An image is [avg_color |-> <the mean of each channel, 0..255>,
\* resized |-> <the means after img.resize((224, 224))>]; a grayscale image
\* has no channel axis, so that avg_color[:3] raises.
\* the same with the first test g >= r and g >= b
simple_image_prediction_not_strict(image) ==
    IF Len(image.avg_color) < 3 THEN <<StrV(UiHouseholdWaste), Confidence(3, 10)>>
    ELSE LET r == image.avg_color[1]
             g == image.avg_color[2]
             b == image.avg_color[3]
         IN  IF g >= r /\ g >= b THEN <<StrV(UiGreenWaste), Confidence(5, 10)>>
             ELSE IF b > r /\ b > g THEN <<StrV(UiPaper), Confidence(4, 10)>>
             ELSE IF r > g /\ r > b THEN <<StrV(UiCardboard), Confidence(4, 10)>>
             ELSE IF r > 200 /\ g > 200 /\ b > 200
             THEN <<StrV(UiFoamPackaging), Confidence(4, 10)>>
             ELSE IF r < 50 /\ g < 50 /\ b < 50 THEN <<StrV(UiMetal), Confidence(4, 10)>>
             ELSE <<StrV(UiHouseholdWaste), Confidence(3, 10)>>

\* the same with the tests of the very light and very dark image first
simple_image_prediction_light_first(image) ==
    IF Len(image.avg_color) < 3 THEN <<StrV(UiHouseholdWaste), Confidence(3, 10)>>
    ELSE LET r == image.avg_color[1]
             g == image.avg_color[2]
             b == image.avg_color[3]
         IN  IF r > 200 /\ g > 200 /\ b > 200
             THEN <<StrV(UiFoamPackaging), Confidence(4, 10)>>
             ELSE IF r < 50 /\ g < 50 /\ b < 50 THEN <<StrV(UiMetal), Confidence(4, 10)>>
             ELSE IF g > r /\ g > b THEN <<StrV(UiGreenWaste), Confidence(5, 10)>>
             ELSE IF b > r /\ b > g THEN <<StrV(UiPaper), Confidence(4, 10)>>
             ELSE IF r > g /\ r > b THEN <<StrV(UiCardboard), Confidence(4, 10)>>
             ELSE <<StrV(UiHouseholdWaste), Confidence(3, 10)>>

\* simple_image_prediction; r, g, b are the first three means
simple_image_prediction(image) ==
    IF Len(image.avg_color) < 3 THEN <<StrV(UiHouseholdWaste), Confidence(3, 10)>>
    ELSE LET r == image.avg_color[1]
             g == image.avg_color[2]
             b == image.avg_color[3]
         IN  IF g > r /\ g > b THEN <<StrV(UiGreenWaste), Confidence(5, 10)>>
             ELSE IF b > r /\ b > g THEN <<StrV(UiPaper), Confidence(4, 10)>>
             ELSE IF r > g /\ r > b THEN <<StrV(UiCardboard), Confidence(4, 10)>>
             ELSE IF r > 200 /\ g > 200 /\ b > 200
             THEN <<StrV(UiFoamPackaging), Confidence(4, 10)>>
             ELSE IF r < 50 /\ g < 50 /\ b < 50 THEN <<StrV(UiMetal), Confidence(4, 10)>>
             ELSE <<StrV(UiHouseholdWaste), Confidence(3, 10)>>

\* np.max(predictions[0])
np_max(p) == CHOOSE x \in {p[i] : i \in 1..Len(p)} : \A i \in 1..Len(p) : p[i] <= x

\* np.argmax(predictions[0]): the first index of the maximum, from 0
np_argmax(p) ==
    (CHOOSE i \in 1..Len(p) : p[i] = np_max(p) /\ \A j \in 1..(i - 1) : p[j] # np_max(p)) - 1

\* the same without the test of the index
class_name_unchecked(img, class_names, predictions) ==
    IF np_argmax(predictions) < Len(class_names)
    THEN Ok(<<StrV(class_names[np_argmax(predictions) + 1]), np_max(predictions)>>)
    ELSE Raise("IndexError")

\* the end of the try block; img is the resized image
class_name(img, class_names, predictions) ==
    IF np_argmax(predictions) < Len(class_names)
    THEN Ok(<<StrV(class_names[np_argmax(predictions) + 1]), np_max(predictions)>>)
    ELSE Ok(simple_image_prediction(img))

\* predict_from_image.  model is None or [t |-> "obj", tensorflow |-> "ok" or
\* the exception of the import, predict |-> <predictions[0] or an exception>];
\* class_names is None or a list of labels.
predict_from_image(img, model, class_names) ==
    IF model.t = "null" \/ class_names.t = "null" THEN Ok(simple_image_prediction(img))
    ELSE IF model.tensorflow # "ok" THEN Ok(simple_image_prediction(img))
    ELSE IF model.predict.exc # ""
    THEN Ok(simple_image_prediction([avg_color |-> img.resized, resized |-> img.resized]))
    ELSE class_name([avg_color |-> img.resized, resized |-> img.resized], class_names.l,
                    model.predict.val)

----------------------------------------------------------------------------
(* The calls of the classifiers                                            *)

Descriptions ==
    { Null, StrV(<<>>),
      StrV(<<"A", " ", "c", "l", "e", "a", "r", " ", "g", "l", "a", "s", "s", " ", "b", "o", "t", "t", "l", "e">>),
      StrV(<<"x", "y", "z", "1", "2", "3">>),
      StrV(<<"n", "e", "w", "s", "p", "a", "p", "e", "r">>),
      StrV(<<"N", "E", "W", "S", "P", "A", "P", "E", "R">>),
      StrV(<<"g", "l", "a", "s", "s", " ", "b", "o", "t", "t", "l", "e">>),
      StrV(<<"c", "o", "n", "t", "a", "i", "n", "e", "r">>),
      StrV(<<"x", "y", "z">>),
      StrV(<<"p", "a", "p", "e", "r", " ", "b", "o", "o", "k", " ", "m", "a", "g", "a", "z", "i", "n", "e", " ", "n", "e", "w", "s", "p", "a", "p", "e", "r", " ", "p", "r", "i", "n", "t", "e", "r", " ", "e", "n", "v", "e", "l", "o", "p", "e">>) }

Vectorizers == {[t |-> "obj", transform |-> "ok"], [t |-> "obj", transform |-> "ValueError"]}

Probabilities ==
    { <<Confidence(25, 100), Confidence(25, 100), Confidence(5, 10)>>,
      <<Confidence(3, 10), Confidence(3, 10), Confidence(4, 10)>> }

TextModels ==
    { [t |-> "obj", predict |-> Raise("ValueError"), predict_proba |-> Ok(<<>>)] }
    \cup { [t |-> "obj", predict |-> Ok(0), predict_proba |-> Raise("AttributeError")] }
    \cup { [t |-> "obj", predict |-> Ok(k), predict_proba |-> Ok(p)] :
              k \in 0..3, p \in Probabilities }

Encoders ==
    { [t |-> "obj", classes |-> <<Paper, Glass, <<"B", "a", "t", "t", "e", "r", "i", "e", "s">>>>],
      [t |-> "obj", classes |-> <<Paper, Glass>>] }

\* the model, the vectorizer and the encoder of a call: all three loaded, or
\* at least one of them None
TextPipelines ==
    { <<model, vectorizer, encoder>> :
        model \in TextModels, vectorizer \in {[t |-> "obj", transform |-> "ok"]},
        encoder \in Encoders }
    \cup { <<[t |-> "obj", predict |-> Ok(0), predict_proba |-> Ok(p)], vectorizer, encoder>> :
             p \in Probabilities, vectorizer \in {[t |-> "obj", transform |-> "ValueError"]},
             encoder \in Encoders }
    \cup { <<Null, Null, Null>>,
           <<Null, [t |-> "obj", transform |-> "ok"],
             [t |-> "obj", classes |-> <<Paper, Glass>>]>>,
           <<[t |-> "obj", predict |-> Ok(0), predict_proba |-> Ok(<<Confidence(5, 10)>>)],
             Null, [t |-> "obj", classes |-> <<Paper, Glass>>]>>,
           <<[t |-> "obj", predict |-> Ok(0), predict_proba |-> Ok(<<Confidence(5, 10)>>)],
             [t |-> "obj", transform |-> "ok"], Null>> }

CallPredictFromText ==
    /\ op = ""
    /\ \E description \in Descriptions, pipeline \in TextPipelines :
          /\ op' = "predict_from_text"
          /\ args' = [description |-> description, model |-> pipeline[1],
                      vectorizer |-> pipeline[2], encoder |-> pipeline[3]]
          /\ result' = predict_from_text(description, pipeline[1], pipeline[2], pipeline[3])
          /\ requests' = <<>>
          /\ UNCHANGED <<frame, session_state>>

\* the channel means of the images of one color per channel
ChannelMeans == {20, 40, 120, 210, 230}

Images ==
    { [avg_color |-> <<r, g, b>>, resized |-> <<r, g, b>>] : r, g, b \in ChannelMeans }
    \cup
    { [avg_color |-> <<200, 200, 200>>, resized |-> <<200, 200, 200>>],
      [avg_color |-> <<50, 50, 50>>, resized |-> <<50, 50, 50>>],
      [avg_color |-> <<40, 120, 60>>, resized |-> <<40, 119, 61>>],
      [avg_color |-> <<30, 60, 140>>, resized |-> <<30, 60, 140>>],
      [avg_color |-> <<150, 100, 60>>, resized |-> <<149, 100, 60>>],
      [avg_color |-> <<230, 230, 230, 255>>, resized |-> <<230, 230, 230, 255>>],
      [avg_color |-> <<20, 20, 20>>, resized |-> <<20, 20, 20>>],
      [avg_color |-> <<120, 120, 120>>, resized |-> <<120, 120, 120>>],
      [avg_color |-> <<100, 101, 100>>, resized |-> <<100, 100, 100>>],
      [avg_color |-> <<90>>, resized |-> <<90>>] }

ImageModels ==
    { Null,
      [t |-> "obj", tensorflow |-> "ImportError", predict |-> Ok(<<Confidence(1, 1)>>)],
      [t |-> "obj", tensorflow |-> "ok", predict |-> Raise("ValueError")],
      [t |-> "obj", tensorflow |-> "ok",
       predict |-> Ok(<<Confidence(5, 10), Confidence(25, 100), Confidence(25, 100)>>)],
      [t |-> "obj", tensorflow |-> "ok",
       predict |-> Ok(<<Confidence(1, 10), Confidence(1, 10), Confidence(8, 10)>>)],
      [t |-> "obj", tensorflow |-> "ok",
       predict |-> Ok(<<Confidence(25, 100), Confidence(25, 100), Confidence(25, 100),
                        Confidence(25, 100)>>)] }

ClassNames ==
    { Null, ListV(IMAGE_CLASS_NAMES), ListV(SubSeq(IMAGE_CLASS_NAMES, 1, 2)), ListV(<<>>) }

CallPredictFromImage ==
    /\ op = ""
    /\ \E img \in Images, model \in ImageModels, class_names \in ClassNames :
          /\ op' = "predict_from_image"
          /\ args' = [img |-> img, model |-> model, class_names |-> class_names]
          /\ result' = predict_from_image(img, model, class_names)
          /\ requests' = <<>>
          /\ UNCHANGED <<frame, session_state>>

NextPredict == CallPredictFromText \/ CallPredictFromImage \/ Return

SpecPredict == Init /\ [][NextPredict]_vars

----------------------------------------------------------------------------
(* Properties of the classifiers                                           *)

Classified == op = "predict_from_text" /\ Truthy(args.description)

ModelSupplied ==
    args.model.t # "null" /\ args.vectorizer.t # "null" /\ args.encoder.t # "null"

\* vectorize, predict, predict_proba, the confidence of the predicted class
\* and the decoding of its label all succeed
InferenceSucceeds ==
    /\ args.vectorizer.transform = "ok"
    /\ args.model.predict.exc = ""
    /\ args.model.predict_proba.exc = ""
    /\ args.model.predict.val + 1 \in DOMAIN args.model.predict_proba.val
    /\ args.model.predict.val + 1 \in DOMAIN args.encoder.classes

RawConfidence == args.model.predict_proba.val[args.model.predict.val + 1]

PredictedClass == args.encoder.classes[args.model.predict.val + 1]

\* the display label of a class of the model; a class without one keeps its
\* name
DisplayLabelOf(category) ==
    IF \E i \in 1..Len(category_mapping) : category_mapping[i][1] = category
    THEN category_mapping[CHOOSE i \in 1..Len(category_mapping) :
                              category_mapping[i][1] = category][2]
    ELSE category

\* C15: with a model supplied and inference succeeding, predict_from_text
\* returns ("Unknown", c) when the confidence c of the model is below 0.3,
\* and (display label of the predicted class, c) when c is 0.3 or more.
C15_ConfidenceThreshold ==
    (Classified /\ ModelSupplied /\ InferenceSucceeds) =>
        /\ result.exc = ""
        /\ RawConfidence < Confidence(3, 10) =>
              result.val = <<StrV(UiUnknown), RawConfidence>>
        /\ RawConfidence >= Confidence(3, 10) =>
              result.val = <<StrV(DisplayLabelOf(PredictedClass)), RawConfidence>>

\* C15 witness: the model predicts Paper with confidence 0.25 and the call
\* returns ("Unknown", 0.25)
C15_Witness ==
    /\ Classified /\ ModelSupplied /\ InferenceSucceeds
    /\ PredictedClass = Paper
    /\ RawConfidence = Confidence(25, 100)
    /\ result.val = <<StrV(UiUnknown), Confidence(25, 100)>>

\* C16: every pair (category, confidence) that predict_from_text or
\* predict_from_image returns for an input with a category has the category
\* "Unknown" when the confidence is below 0.3.
C16_LowConfidenceIsUnknown ==
    (/\ op \in {"predict_from_text", "predict_from_image"}
     /\ result.exc = ""
     /\ result.val[1] # Null
     /\ result.val[2] < Confidence(3, 10)) => result.val[1] = StrV(UiUnknown)

\* C17: when a model is supplied and a step of the inference fails, no
\* exception reaches the caller and the pair returned is the one that
\* predict_from_text returns for the same description without a model.
C17_InferenceFailureFallsBack ==
    (Classified /\ ModelSupplied /\ ~InferenceSucceeds) =>
        /\ result.exc = ""
        /\ result.val = predict_from_text(args.description, Null, Null, Null).val
        /\ result.val = rule_based_prediction(args.description.s)

\* C17 witness: the vectorizer raises on "NEWSPAPER" and the call returns
\* ("Paper", 2/7), the pair of the keyword heuristic
C17_Witness ==
    /\ Classified /\ ModelSupplied
    /\ args.description = StrV(<<"N", "E", "W", "S", "P", "A", "P", "E", "R">>)
    /\ args.vectorizer.transform = "ValueError"
    /\ result = Ok(<<StrV(UiPaper), Confidence(2, 7)>>)

Pictured == op = "predict_from_image"

\* the model and the class names are supplied and the import succeeds
ImageModelUsed ==
    args.model.t # "null" /\ args.class_names.t # "null" /\ args.model.tensorflow = "ok"

\* the prediction succeeds and its argmax is an index of the class names
ValidClassIndex ==
    /\ args.model.predict.exc = ""
    /\ np_argmax(args.model.predict.val) + 1 \in DOMAIN args.class_names.l

\* C18: predict_from_image never raises; it returns the result of the color
\* heuristic (for the image as given when the model is not used, for the
\* resized image after the prediction) when no model or no class names are
\* supplied, when the argmax is not an index of the class names or when the
\* inference raises; otherwise it returns the class name at the argmax with
\* the maximum probability.
C18_ImageFallback ==
    Pictured =>
        /\ result.exc = ""
        /\ ~ImageModelUsed => result.val = simple_image_prediction(args.img)
        /\ (ImageModelUsed /\ ~ValidClassIndex) =>
              result.val = simple_image_prediction([avg_color |-> args.img.resized,
                                                    resized |-> args.img.resized])
        /\ (ImageModelUsed /\ ValidClassIndex) =>
              result.val = <<StrV(args.class_names.l[np_argmax(args.model.predict.val) + 1]),
                             np_max(args.model.predict.val)>>

\* C18 witness: the argmax 2 is no index of a list of two class names and the
\* call returns the result of the color heuristic
C18_Witness ==
    /\ Pictured /\ ImageModelUsed
    /\ args.model.predict.exc = ""
    /\ np_argmax(args.model.predict.val) = 2
    /\ Len(args.class_names.l) = 2
    /\ args.img.avg_color = <<30, 60, 140>>
    /\ result = Ok(<<StrV(UiPaper), Confidence(4, 10)>>)

\* the number of keywords of the i-th category that occur in the lower-cased
\* description
KeywordScore(i, description) ==
    Cardinality({k \in 1..Len(keywords[i][2]) :
                    str_in(keywords[i][2][k], str_lower(description))})

\* the smaller of 0.7 and score / size
CappedConfidence(score, size) ==
    IF Confidence(score, size) < Confidence(7, 10) THEN Confidence(score, size)
    ELSE Confidence(7, 10)

\* C23: without a model the call returns, when some keyword occurs, one of
\* the 12 categories whose keyword score is maximal, with the confidence
\* min(0.7, score / size of its keyword list), and the household category
\* with 0.3 when no keyword occurs; "A clear glass bottle" gives Glass with a
\* confidence above 0 and "xyz123" gives household with 0.3.
C23_KeywordHeuristic ==
    (Classified /\ ~ModelSupplied) =>
        /\ result.exc = ""
        /\ Len(keywords) = 12
        /\ (\A i \in 1..Len(keywords) : KeywordScore(i, args.description.s) = 0) =>
              result.val = <<StrV(UiHouseholdWaste), Confidence(3, 10)>>
        /\ (\E i \in 1..Len(keywords) : KeywordScore(i, args.description.s) # 0) =>
              \E i \in 1..Len(keywords) :
                  /\ \A j \in 1..Len(keywords) :
                         KeywordScore(j, args.description.s)
                             <= KeywordScore(i, args.description.s)
                  /\ result.val = <<StrV(keywords[i][1]),
                                    CappedConfidence(KeywordScore(i, args.description.s),
                                                     Len(keywords[i][2]))>>
        /\ args.description = StrV(<<"A", " ", "c", "l", "e", "a", "r", " ", "g", "l", "a", "s", "s", " ", "b", "o", "t", "t", "l", "e">>) =>
              result.val[1] = StrV(UiGlass) /\ result.val[2] > 0
        /\ args.description = StrV(<<"x", "y", "z", "1", "2", "3">>) =>
              result.val = <<StrV(UiHouseholdWaste), Confidence(3, 10)>>

\* C23 witness: "A clear glass bottle" without a model gives Glass with the
\* confidence 2/6
C23_Witness ==
    /\ Classified /\ ~ModelSupplied
    /\ args.description = StrV(<<"A", " ", "c", "l", "e", "a", "r", " ", "g", "l", "a", "s", "s", " ", "b", "o", "t", "t", "l", "e">>)
    /\ result = Ok(<<StrV(UiGlass), Confidence(2, 6)>>)

\* the color heuristic ran on the image as given
HeuristicOnly == Pictured /\ ~ImageModelUsed

\* the image has the three channel means
HasChannels == Len(args.img.avg_color) >= 3

Red == args.img.avg_color[1]

Green == args.img.avg_color[2]

Blue == args.img.avg_color[3]

\* C24: simple_image_prediction returns the outcome of the first rule that
\* applies: green strictly greatest -> green waste 0.5; blue strictly
\* greatest -> paper 0.4; red strictly greatest -> cardboard 0.4; all means
\* above 200 -> foam packaging 0.4; all below 50 -> metal 0.4; otherwise
\* household waste 0.3.  Every confidence lies in [0.3, 0.5], and an image
\* whose means cannot be read gives household waste 0.3.
C24_ColorRules ==
    HeuristicOnly =>
        /\ result.exc = ""
        /\ Confidence(3, 10) <= result.val[2] /\ result.val[2] <= Confidence(5, 10)
        /\ ~HasChannels => result.val = <<StrV(UiHouseholdWaste), Confidence(3, 10)>>
        /\ HasChannels =>
              result.val =
                  IF Green > Red /\ Green > Blue
                  THEN <<StrV(UiGreenWaste), Confidence(5, 10)>>
                  ELSE IF Blue > Red /\ Blue > Green
                  THEN <<StrV(UiPaper), Confidence(4, 10)>>
                  ELSE IF Red > Green /\ Red > Blue
                  THEN <<StrV(UiCardboard), Confidence(4, 10)>>
                  ELSE IF Red > 200 /\ Green > 200 /\ Blue > 200
                  THEN <<StrV(UiFoamPackaging), Confidence(4, 10)>>
                  ELSE IF Red < 50 /\ Green < 50 /\ Blue < 50
                  THEN <<StrV(UiMetal), Confidence(4, 10)>>
                  ELSE <<StrV(UiHouseholdWaste), Confidence(3, 10)>>

\* C24 witness: an image with the means (20, 20, 20) gives metal 0.4
C24_Witness ==
    /\ HeuristicOnly
    /\ args.img.avg_color = <<20, 20, 20>>
    /\ result = Ok(<<StrV(UiMetal), Confidence(4, 10)>>)

\* one channel mean is strictly greater than both others
OneChannelDominant ==
    \/ Red > Green /\ Red > Blue
    \/ Green > Red /\ Green > Blue
    \/ Blue > Red /\ Blue > Green

\* C30: simple_image_prediction returns foam packaging or metal only when no
\* channel mean is strictly greater than both others; an image whose means
\* are all above 200 or all below 50 with one strictly dominant channel gets
\* the category of that channel.
C30_DominantChannelFirst ==
    (HeuristicOnly /\ HasChannels) =>
        /\ result.val[1] \in {StrV(UiFoamPackaging), StrV(UiMetal)} => ~OneChannelDominant
        /\ (/\ OneChannelDominant
            /\ \/ Red > 200 /\ Green > 200 /\ Blue > 200
               \/ Red < 50 /\ Green < 50 /\ Blue < 50) =>
              /\ (Green > Red /\ Green > Blue) => result.val[1] = StrV(UiGreenWaste)
              /\ (Blue > Red /\ Blue > Green) => result.val[1] = StrV(UiPaper)
              /\ (Red > Green /\ Red > Blue) => result.val[1] = StrV(UiCardboard)

\* C30 witness: the means (230, 210, 210) are all above 200 with red
\* dominant, and the image is cardboard
C30_Witness ==
    /\ HeuristicOnly
    /\ args.img.avg_color = <<230, 210, 210>>
    /\ result = Ok(<<StrV(UiCardboard), Confidence(4, 10)>>)

\* the keys of the dict of convert_waste_type_to_api
ConvertibleLabels == {ui_to_api_mapping[i][1] : i \in 1..Len(ui_to_api_mapping)}

\* the call returned a category other than None and "Unknown"; a category
\* from the model of predict_from_text is one of its 12 known labels
CategoryReturned ==
    /\ op \in {"predict_from_text", "predict_from_image"}
    /\ result.exc = ""
    /\ result.val[1] \notin {Null, StrV(UiUnknown)}
    /\ (op = "predict_from_text" /\ ModelSupplied /\ InferenceSucceeds) =>
           \E i \in 1..Len(category_mapping) : category_mapping[i][1] = PredictedClass

\* C28: every category that a classifier returns, other than None and
\* "Unknown", is a key of convert_waste_type_to_api and converts to one of
\* the 12 codes of get_available_waste_types; so are the display labels of
\* the 12 model labels, the categories of the keyword heuristic and the
\* entries of IMAGE_CLASS_NAMES.
C28_CategoriesConvertible ==
    /\ CategoryReturned =>
           /\ result.val[1].s \in ConvertibleLabels
           /\ convert_waste_type_to_api(result.val[1].s) \in UpstreamCodes
    /\ op \in {"predict_from_text", "predict_from_image"} =>
           /\ \A i \in 1..Len(category_mapping) :
                  convert_waste_type_to_api(category_mapping[i][2]) \in UpstreamCodes
           /\ \A i \in 1..Len(keywords) :
                  convert_waste_type_to_api(keywords[i][1]) \in UpstreamCodes
           /\ \A i \in 1..Len(IMAGE_CLASS_NAMES) :
                  convert_waste_type_to_api(IMAGE_CLASS_NAMES[i]) \in UpstreamCodes
           /\ Len(category_mapping) = 12 /\ Cardinality(UpstreamCodes) = 12

\* C28 witness: the color heuristic returned foam packaging, which converts
\* to the code "Styropor"
C28_Witness ==
    /\ CategoryReturned
    /\ HeuristicOnly
    /\ result.val[1] = StrV(UiFoamPackaging)
    /\ convert_waste_type_to_api(result.val[1].s) = Styropor

----------------------------------------------------------------------------
(* The street and waste-type match of get_next_collection_date             *)

MaxStreetEvents == 1

\* events after today that differ in the 'strasse' and 'sammlung' fields
StreetEvents ==
    { Event(StrV(Papier), WasteList(<<Rosenweg, Bahnhofstrasse>>), StrV(D0615), StrV(Ab7Uhr), <<"a">>),
      Event(StrV(Papier), StrV(Bahnhofstrasse), StrV(D0615), StrV(Ab7Uhr), <<"b">>),
      Event(StrV(Papier), ListV(<<Num(5), StrV(<<" ", "B", "A", "H", "N", "H", "O", "F", "S", "T", "R", "A", "S", "S", "E", " ">>)>>), StrV(D0615),
            StrV(Ab7Uhr), <<"c">>),
      Event(StrV(Papier), Null, StrV(D0615), StrV(Ab7Uhr), <<"d">>),
      Event(StrV(Papier), ListV(<<>>), StrV(D0615), StrV(Ab7Uhr), <<"e">>),
      [sammlung |-> StrV(Papier), datum |-> StrV(D0615), zeit |-> StrV(Ab7Uhr),
       titel |-> StrV(<<"f">>)],
      Event(StrV(Papier), StrV(<<"B", "a", "h", "n", "h", "o", "f">>), StrV(D0615), StrV(Ab7Uhr), <<"g">>),
      Event(StrV(<<"p", "a", "p", "i", "e", "r">>), WasteList(<<Bahnhofstrasse>>), StrV(D0615), StrV(Ab7Uhr), <<"h">>),
      Event(StrV(Glas), WasteList(<<Bahnhofstrasse>>), StrV(D0615), StrV(Ab7Uhr), <<"i">>),
      Event(StrV(Papier), ListV(<<Num(5)>>), StrV(D0615), StrV(Ab7Uhr), <<"j">>),
      Event(StrV(Papier), WasteList(<<<<"H", "a", "u", "p", "t", "b", "a", "h", "n", "h", "o", "f", "s", "t", "r", "a", "s", "s", "e", " ", "1", "2">>>>), StrV(D0615),
            StrV(Ab7Uhr), <<"k">>),
      [strasse |-> WasteList(<<Bahnhofstrasse>>), datum |-> StrV(D0615), zeit |-> StrV(Ab7Uhr),
       titel |-> StrV(<<"l">>)] }

StreetInputs ==
    { Bahnhofstrasse, <<" ", "b", "a", "h", "n", "h", "o", "f", " ">>, Rosenweg, <<"B", "A", "H", "N", "H", "O", "F", "S", "T", "R", "A", "S", "S", "E", " ", "5">>, <<"H", "o", "f", "w", "e", "g">> }

CallGetNextCollectionDateForStreet ==
    /\ op = ""
    /\ \E street_name \in StreetInputs, waste_type \in {Papier, <<"P", "A", "P", "I", "E", "R">>, Glas},
          all_dates \in SeqsUpTo(StreetEvents, MaxStreetEvents) :
          /\ op' = "get_next_collection_date"
          /\ args' = [street_name |-> street_name, waste_type |-> waste_type,
                      all_dates |-> all_dates, today |-> Today, current_hour |-> 10]
          /\ result' = get_next_collection_date(street_name, waste_type, all_dates, Today, 10)
          /\ requests' = <<>>
          /\ UNCHANGED <<frame, session_state>>

NextStreet == CallGetNextCollectionDateForStreet \/ Return

SpecStreet == Init /\ [][NextStreet]_vars

\* the waste code of an event; an event without the field has the code ""
WasteCode(item) == IF "sammlung" \in DOMAIN item THEN item["sammlung"].s ELSE <<>>

\* the street names of an event: the entries of the list, a single str as a
\* list of one, without the entries that are no str
StreetsOf(item) ==
    IF "strasse" \notin DOMAIN item THEN <<>>
    ELSE IF item["strasse"].t = "list"
    THEN SelectSeq(item["strasse"].l, LAMBDA s : s.t = "str")
    ELSE IF item["strasse"].t = "str" THEN <<item["strasse"]>>
    ELSE <<>>

Trimmed(s) == str_strip(str_lower(s))

\* the event is for the waste type, ignoring letter case, and one of its
\* street names contains or is contained in the street name
IsCandidate(item, street_name, waste_type) ==
    /\ str_lower(WasteCode(item)) = str_lower(waste_type)
    /\ \E i \in 1..Len(StreetsOf(item)) :
          \/ str_in(Trimmed(street_name), Trimmed(StreetsOf(item)[i].s))
          \/ str_in(Trimmed(StreetsOf(item)[i].s), Trimmed(street_name))

\* C20: among events after today, get_next_collection_date returns an event
\* if and only if some event has the requested waste code, ignoring letter
\* case, and a street name (a single str counting as a list of one, entries
\* that are no str ignored) that, trimmed and lower-cased, contains or is
\* contained in the trimmed lower-cased street name; the event returned is
\* such an event.
C20_CandidateEvents ==
    (Resolved /\ EventsAmong(StreetEvents)) =>
        /\ result.exc = ""
        /\ result.val # Null <=>
              \E i \in 1..Len(args.all_dates) :
                  IsCandidate(args.all_dates[i], args.street_name, args.waste_type)
        /\ result.val # Null =>
              \E i \in 1..Len(args.all_dates) :
                  /\ IsCandidate(args.all_dates[i], args.street_name, args.waste_type)
                  /\ result.val.description = args.all_dates[i]["titel"]

\* C20 witness: the street name "BAHNHOFSTRASSE 5" contains the single-str
\* street "Bahnhof" of an event for "Papier", requested as "PAPIER", and the
\* event is returned
C20_Witness ==
    /\ Resolved
    /\ args.street_name = <<"B", "A", "H", "N", "H", "O", "F", "S", "T", "R", "A", "S", "S", "E", " ", "5">>
    /\ args.waste_type = <<"P", "A", "P", "I", "E", "R">>
    /\ Len(args.all_dates) = 1
    /\ "strasse" \in DOMAIN args.all_dates[1]
    /\ args.all_dates[1]["strasse"] = StrV(<<"B", "a", "h", "n", "h", "o", "f">>)
    /\ result.val # Null
    /\ result.val.description = StrV(<<"g">>)


----------------------------------------------------------------------------
(* The pagination of fetch_collection_dates, one request at a time         *)

\* the number of requests of one call that the model follows
MaxPages == 4

\* The upstream dataset.  A "paged" source holds `records` event records and
\* reports that number as total_count on every page; an "overstating" source
\* reports more records than it serves; a "growing" source serves a full page
\* at every offset and a total_count that is each time larger than what the
\* caller has accumulated.  The request number fail_at (0: none) fails.
DatasetSizes == {0, 1, 50, 99, 100, 101, 199, 200, 201, 250, 300}

Sources ==
    { [kind |-> "paged", records |-> n, fail_at |-> f] :
        n \in DatasetSizes, f \in 0 .. 3 }
    \cup { [kind |-> "overstating", records |-> n, fail_at |-> f] :
            n \in {150, 200}, f \in {0, 2} }
    \cup { [kind |-> "growing", records |-> 0, fail_at |-> f] : f \in {0, 3} }

\* the records of the dataset stand by their position in it
page_results(source, offset) ==
    IF source.kind = "growing" THEN [i \in 1 .. limit |-> offset + i]
    ELSE IF offset >= source.records THEN <<>>
    ELSE IF offset + limit <= source.records THEN [i \in 1 .. limit |-> offset + i]
    ELSE [i \in 1 .. (source.records - offset) |-> offset + i]

\* the answer of the source to the request with params offset and limit
\* (lines 268-282: requests.get, raise_for_status, response.json)
upstream(source, offset) ==
    IF source.fail_at = offset \div limit + 1 THEN [kind |-> "error"]
    ELSE [kind |-> "ok", results |-> page_results(source, offset),
          total_count |-> IF source.kind = "paged" THEN source.records
                          ELSE IF source.kind = "overstating" THEN source.records + limit
                          ELSE offset + 2 * limit]

\* A frame with offset >= MaxPages * limit stands for every such frame: the
\* model then keeps the offset at that value, the first MaxPages * limit
\* accumulated records and the first MaxPages requests.  No source of Sources
\* but the growing one brings a call there.
saturated(n) == IF n > MaxPages * limit THEN MaxPages * limit ELSE n

\* lines 257-264: the call enters the try block with all_results = [] and
\* offset = 0
CallFetchCollectionDates ==
    /\ op = ""
    /\ \E source \in Sources :
          /\ op' = "fetch_collection_dates"
          /\ args' = [source |-> source]
    /\ frame' = [pc |-> "request", offset |-> 0, all_results |-> <<>>]
    /\ result' = <<>>
    /\ requests' = <<>>
    /\ UNCHANGED session_state

\* lines 267-276: the pass sends its request and waits for the answer (the
\* request carries timeout=30, so that an answer or an exception follows)
SendRequest ==
    /\ op = "fetch_collection_dates"
    /\ frame # <<>>
    /\ frame.pc = "request"
    /\ requests' = IF Len(requests) < MaxPages
                   THEN Append(requests, [offset |-> frame.offset, limit |-> limit])
                   ELSE requests
    /\ frame' = [frame EXCEPT !.pc = "response"]
    /\ UNCHANGED <<op, args, result, session_state>>

\* what one pass of the loop leaves: the next frame, or the value returned
\* (lines 300-305 after a break, lines 307-310 after an exception)
after_pass(pass) ==
    IF pass.pc = "loop"
    THEN [frame |-> [pc |-> "request", offset |-> saturated(pass.offset),
                     all_results |-> SubSeq(pass.all_results, 1,
                                            saturated(Len(pass.all_results)))],
          result |-> <<>>]
    ELSE [frame |-> <<>>,
          result |-> Ok(IF pass.pc = "raise" THEN <<>> ELSE pass.all_results)]

\* lines 277-305: the answer arrives and the pass ends: the loop goes round
\* again, or the call returns
ReceivePage ==
    /\ op = "fetch_collection_dates"
    /\ frame # <<>>
    /\ frame.pc = "response"
    /\ frame' = after_pass(fetch_pages(upstream(args.source, frame.offset),
                                       frame.offset, frame.all_results)).frame
    /\ result' = after_pass(fetch_pages(upstream(args.source, frame.offset),
                                        frame.offset, frame.all_results)).result
    /\ UNCHANGED <<op, args, requests, session_state>>

NextFetch == CallFetchCollectionDates \/ SendRequest \/ ReceivePage \/ Return

SpecFetch == Init /\ [][NextFetch]_vars

\* the loop is sequential code that waits for nothing but the answer to its
\* own request
SpecFetchFair == SpecFetch /\ WF_vars(SendRequest) /\ WF_vars(ReceivePage)

Fetching == op = "fetch_collection_dates"

FetchReturned == Fetching /\ frame = <<>>

FaithfulSource == Fetching /\ args.source.kind = "paged" /\ args.source.fail_at = 0

\* the number of requests after which one of the three stop conditions is met
RequestsNeeded(n) == IF n = 0 THEN 1 ELSE (n + limit - 1) \div limit

\* C25: against a source that holds N records, reports total_count = N on
\* every page and serves pages by offset and limit, the requests are made at
\* the offsets 0, 100, 200, ... with the page size as limit, the call stops
\* with the request at which the accumulated count reaches N, a short page or
\* an empty page arrives, and it returns the N records in upstream order,
\* each once.
C25_PaginationCollectsAll ==
    FaithfulSource =>
        /\ \A i \in 1 .. Len(requests) :
              requests[i] = [offset |-> (i - 1) * limit, limit |-> limit]
        /\ Len(requests) <= RequestsNeeded(args.source.records)
        /\ FetchReturned =>
              /\ Len(requests) = RequestsNeeded(args.source.records)
              /\ result = Ok([i \in 1 .. args.source.records |-> i])

C25_Witness ==
    /\ FaithfulSource
    /\ FetchReturned
    /\ args.source.records = 250
    /\ Len(requests) = 3
    /\ Len(result.val) = 250

\* C26: every call of fetch_collection_dates eventually returns, whatever
\* the source answers.
C26_LoopReturns == Fetching ~> FetchReturned

\* C27: when the request for any page fails, the call returns the empty list
\* and none of the records accumulated from the pages before.
C27_AllOrNothing ==
    (FetchReturned /\ args.source.fail_at \in 1 .. Len(requests)) =>
        result = Ok(<<>>)

C27_Witness ==
    /\ FetchReturned
    /\ args.source.fail_at = 3
    /\ args.source.records = 250
    /\ Len(requests) = 3
    /\ result = Ok(<<>>)

----------------------------------------------------------------------------
(* The session of the pages Find Collection Points and Identify Waste      *)

\* st.session_state is a function from the keys it holds to their values.
\* Strings are held as StrV values and None as Null.
has_key(state, key) == key \in DOMAIN state

set_key(state, key, value) ==
    [k \in DOMAIN state \cup {key} |-> IF k = key THEN value ELSE state[k]]

\* pages/2_Find_Collection_Points.py lines 56-58 (and app.py lines 55-57)
find_page_init(state) ==
    IF has_key(state, "waste_info_results") THEN state
    ELSE set_key(set_key(state, "waste_info_results", Null), "show_results", FALSE)

\* pages/3_Identify_Waste.py lines 55-58
identify_page_init(state) ==
    IF has_key(state, "identified_waste_type") THEN state
    ELSE set_key(set_key(set_key(state, "identified_waste_type", Null),
                         "waste_confidence", Null),
                 "search_for_collection", FALSE)

\* pages/2_Find_Collection_Points.py lines 123-136: the results section is
\* left out (""), is shown, or raises when it reads a key the session does
\* not hold (AttributeError) or subscripts None (TypeError)
results_section(state) ==
    IF ~(has_key(state, "show_results") /\ state["show_results"]) THEN ""
    ELSE IF ~has_key(state, "waste_info_results") \/ ~has_key(state, "selected_waste_type")
            \/ ~has_key(state, "user_address")
    THEN "AttributeError"
    ELSE IF state["waste_info_results"] = Null THEN "TypeError"
    ELSE "shown"

\* pages/2_Find_Collection_Points.py lines 100-121, from the line that stores
\* the inputs on: waste_info is the outcome of handle_waste_disposal, and an
\* exception of it ends the run before the results are stored
find_page_store(state, english, user_address, waste_info) ==
    IF waste_info.exc # ""
    THEN set_key(set_key(state, "selected_waste_type", StrV(english)),
                 "user_address", StrV(user_address))
    ELSE set_key(set_key(set_key(set_key(state,
                 "selected_waste_type", StrV(english)),
                 "user_address", StrV(user_address)),
                 "waste_info_results", waste_info.ret),
                 "show_results", TRUE)

\* pages/3_Identify_Waste.py lines 105-116 and 133-144: prediction is the
\* outcome of predict_from_text or predict_from_image
identify_page_store(state, prediction) ==
    IF prediction.exc # "" \/ ~Truthy(prediction.val[1]) THEN state
    ELSE IF prediction.val[1] = StrV(UiUnknown)
    THEN set_key(set_key(state, "identified_waste_type", prediction.val[1]),
                 "waste_confidence", prediction.val[2])
    ELSE set_key(set_key(set_key(state, "identified_waste_type", prediction.val[1]),
                         "waste_confidence", prediction.val[2]),
                 "search_for_collection", TRUE)

\* pages/3_Identify_Waste.py lines 277-278: the address form is on the page
identified_waste_form(state) ==
    /\ Truthy(state["identified_waste_type"])
    /\ state["identified_waste_type"] # StrV(UiUnknown)
    /\ state["search_for_collection"]

\* pages/3_Identify_Waste.py lines 296-309
identify_page_search(state, user_address, waste_info) ==
    IF waste_info.exc # "" THEN state
    ELSE set_key(set_key(set_key(set_key(state,
                 "waste_info_results", waste_info.ret),
                 "selected_waste_type", state["identified_waste_type"]),
                 "user_address", StrV(user_address)),
                 "show_results", TRUE)

\* what the services answer during one search
SessionServices ==
    { [geo |-> GeocodeFound, points |-> [kind |-> "ok", results |-> <<PointA>>],
       dates |-> <<[kind |-> "ok", results |-> <<EventFuture>>, total_count |-> 1]>>],
      [geo |-> [kind |-> "ok", data |-> <<>>], points |-> [kind |-> "error"],
       dates |-> <<[kind |-> "error"]>>],
      [geo |-> GeocodeFound, points |-> [kind |-> "ok", results |-> <<PointA>>],
       dates |-> <<[kind |-> "ok",
                    results |-> <<Event(StrV(Papier), WasteList(<<Bahnhofstrasse>>),
                                        StrV(D0601), Null, <<"1", "4">>)>>,
                    total_count |-> 1]>>] }

\* the text in an address field: left empty, or filled in
SessionAddresses == { <<>>, Bahnhofstrasse }

\* the options of the select box that the model follows
SessionWasteTypes == { Papier, Glas }

\* the text in the description field
SessionDescriptions ==
    { <<>>,
      <<"A", " ", "c", "l", "e", "a", "r", " ", "g", "l", "a", "s", "s", " ", "b", "o", "t", "t", "l", "e">>,
      <<"n", "e", "w", "s", "p", "a", "p", "e", "r">>,
      <<"x", "y", "z", "1", "2", "3">> }

\* the uploaded pictures
SessionImages ==
    { [avg_color |-> <<200, 200, 200>>, resized |-> <<200, 200, 200>>],
      [avg_color |-> <<50, 50, 50>>, resized |-> <<50, 50, 50>>] }

\* a run of the Find Collection Points page with no button pressed
OpenFindPage ==
    /\ op' = "find_page"
    /\ session_state' = find_page_init(session_state)
    /\ result' = [render |-> results_section(find_page_init(session_state))]
    /\ UNCHANGED <<args, requests, frame>>

\* a run of the Find Collection Points page with Find Information pressed
\* (lines 56-59, 100-121 and the results section)
SubmitSearch ==
    /\ \E user_address \in SessionAddresses, german \in SessionWasteTypes,
          services \in SessionServices :
          /\ op' = "find_page_submit"
          /\ session_state' =
                IF user_address = <<>> THEN find_page_init(session_state)
                ELSE find_page_store(find_page_init(session_state),
                                     translate_waste_type(german), user_address,
                                     handle_waste_disposal(user_address, german,
                                         services.geo, services.points, services.dates,
                                         Today, 10))
          /\ result' =
                IF user_address # <<>>
                   /\ handle_waste_disposal(user_address, german, services.geo,
                          services.points, services.dates, Today, 10).exc # ""
                THEN [render |-> "", exc |-> handle_waste_disposal(user_address, german,
                          services.geo, services.points, services.dates, Today, 10).exc]
                ELSE [render |-> results_section(session_state'), exc |-> ""]
    /\ UNCHANGED <<args, requests, frame>>

\* a run of the Find Collection Points page with Search Again pressed, and
\* the run that st.experimental_rerun() starts (lines 193-196)
SearchAgain ==
    /\ results_section(find_page_init(session_state)) = "shown"
    /\ op' = "find_page_search_again"
    /\ session_state' = set_key(find_page_init(session_state), "show_results", FALSE)
    /\ result' = [render |-> ""]
    /\ UNCHANGED <<args, requests, frame>>

\* a run of the Identify Waste page with no button pressed
OpenIdentifyPage ==
    /\ op' = "identify_page"
    /\ session_state' = identify_page_init(session_state)
    /\ result' = [render |-> ""]
    /\ UNCHANGED <<args, requests, frame>>

\* a run of the Identify Waste page with Identify from Description pressed
\* (lines 97-116); load_text_model found no model
IdentifyFromText ==
    /\ \E waste_description \in SessionDescriptions :
          /\ op' = "identify_page_text"
          /\ session_state' =
                IF waste_description = <<>> THEN identify_page_init(session_state)
                ELSE identify_page_store(identify_page_init(session_state),
                         predict_from_text(StrV(waste_description), Null, Null, Null))
    /\ result' = [render |-> ""]
    /\ UNCHANGED <<args, requests, frame>>

\* a run of the Identify Waste page with Identify from Image pressed
\* (lines 128-144); load_image_model found no model
IdentifyFromImage ==
    /\ \E image \in SessionImages :
          /\ op' = "identify_page_image"
          /\ session_state' =
                identify_page_store(identify_page_init(session_state),
                    predict_from_image(image, Null, ListV(IMAGE_CLASS_NAMES)))
    /\ result' = [render |-> ""]
    /\ UNCHANGED <<args, requests, frame>>

\* a run of the Identify Waste page with Find collection points pressed
\* (lines 277-309)
SubmitIdentifiedForm ==
    /\ identified_waste_form(identify_page_init(session_state))
    /\ \E user_address \in SessionAddresses, services \in SessionServices :
          /\ op' = "identify_page_submit"
          /\ session_state' =
                IF user_address = <<>> THEN session_state
                ELSE identify_page_search(session_state, user_address,
                         handle_waste_disposal(user_address,
                             convert_waste_type_to_api(session_state["identified_waste_type"].s),
                             services.geo, services.points, services.dates, Today, 10))
    /\ result' = [render |-> ""]
    /\ UNCHANGED <<args, requests, frame>>

\* a run of the Identify Waste page with Start Over pressed (lines 312-318)
StartOver ==
    /\ Truthy(identify_page_init(session_state)["identified_waste_type"])
    /\ op' = "identify_page_start_over"
    /\ session_state' =
          set_key(set_key(set_key(session_state, "identified_waste_type", Null),
                          "waste_confidence", Null),
                  "search_for_collection", FALSE)
    /\ result' = [render |-> ""]
    /\ UNCHANGED <<args, requests, frame>>

NextSession ==
    \/ OpenFindPage
    \/ SubmitSearch
    \/ SearchAgain
    \/ OpenIdentifyPage
    \/ IdentifyFromText
    \/ IdentifyFromImage
    \/ SubmitIdentifiedForm
    \/ StartOver

SpecSession == Init /\ [][NextSession]_vars

ShowsResults == has_key(session_state, "show_results") /\ session_state["show_results"]

\* C29: after every sequence of runs of the two pages, when show_results is
\* true the session holds a waste_info_results that is not None, a
\* selected_waste_type and a user_address, and no run of the Find Collection
\* Points page fails in its results section.
C29_ResultsStateComplete ==
    /\ ShowsResults =>
          /\ has_key(session_state, "waste_info_results")
          /\ session_state["waste_info_results"] # Null
          /\ has_key(session_state, "selected_waste_type")
          /\ has_key(session_state, "user_address")
    /\ op \in {"find_page", "find_page_submit", "find_page_search_again"} =>
          result.render \notin {"AttributeError", "TypeError"}

\* the results were stored by the Identify Waste page in a session that had
\* never run the Find Collection Points page, and Start Over followed
C29_Witness ==
    /\ op = "identify_page_start_over"
    /\ ShowsResults
    /\ session_state["identified_waste_type"] = Null
    /\ session_state["waste_info_results"] # Null
    /\ session_state["selected_waste_type"] = StrV(UiGlass)
====
